---- MODULE Spec2Model ----
(***************************************************************************)
(* A model of the LinkedIn job automation pipeline: the resilience         *)
(* wrappers of utils.py (retry_on_failure, rate_limit), the matcher of     *)
(* ai_matcher.py, the listing source of linkedin_scraper.py, the notifier  *)
(* of notifier.py, the result store of sheets_manager.py and the run of    *)
(* main.py that puts them together.                                        *)
(*                                                                         *)
(* Time is a natural number of seconds (time.time()); time.sleep(d) adds d *)
(* to it.  An operation's outcome is a record [kind, exc, val]: it either  *)
(* returns val or raises exc.                                              *)
(***************************************************************************)
EXTENDS Integers, Sequences, FiniteSets, TLC

VARIABLES
    \* ---- retry_on_failure, wrapping an arbitrary operation
    r_cfg,          \* the decorator's arguments [max_retries, delay, backoff]
    r_w,            \* the wrapper's frame (see RetryEnter)
    \* ---- rate_limit, wrapping an arbitrary operation
    rl_cfg,         \* the decorator's arguments [calls, period]
    last_called,    \* last_called[0] of the closure
    rl_log,         \* the invocations of the wrapped operation so far
    \* ---- the clock
    now,            \* time.time()
    \* ---- AIMatcher.batch_match_jobs and the match_job calls it makes
    m_jobs,         \* the `jobs` argument of batch_match_jobs
    m_pc,           \* "idle", "matching" (inside match_job), "collect", "done"
    m_i,            \* the index of the job the for loop is at (from 1)
    m_w,            \* the frame of the retry wrapper around match_job
    m_api,          \* API requests sent by the current match_job call
    matched_jobs,   \* the list batch_match_jobs builds
    m_hist,         \* per job, how its match_job call ended (its outcome)
    \* ---- LinkedInScraper.search_jobs and the fetches it makes
    s_pc,           \* "idle", "search" (fetch_search_results), "details", "done", "raised"
    s_max_jobs,     \* the max_jobs argument
    s_w,            \* the frame of the retry wrapper around the current fetch
    s_last_called,  \* last_called[0] of the two rate_limit closures
    s_links,        \* what extract_job_links returned
    job_links,      \* job_links[:max_jobs]
    s_i,            \* the index of the link the for loop is at (from 1)
    jobs,           \* the list search_jobs builds
    s_http,         \* per link, what each GET of its detail page did
    \* ---- TelegramNotifier and the calls of its methods
    n_args,         \* the constructor's arguments
    n_self,         \* self.enabled, and whether self.bot is a Bot
    n_pc,           \* "idle", "ready", "sending" (inside send_message), "done"
    n_op,           \* the method called last
    n_w,            \* the frame of the retry wrapper around send_message
    n_sent,         \* what the channel did at each send of the current call
    n_result,       \* the outcome of the call that ended last
    \* ---- SheetsManager and the worksheet it writes
    sheet,          \* the rows of the worksheet
    sh_pc,          \* "idle", "ready", "upsert", "batch", "done", "raised"
    sh_job,         \* job_data of the running update_or_append_job call
    sh_w,           \* the frame of the retry wrapper around that call
    sh_before,      \* the rows when that call was entered
    sh_jobs,        \* the `jobs` argument of batch_append_jobs
    sh_i,           \* the index of the job the for loop is at (from 1)
    sh_hist,        \* the calls that have finished, oldest first
    \* ---- JobSearchAutomation.run
    run_pc,         \* where run is: "extract", "filters", "fetch", "nojobs",
                    \* "match", "threshold", "headers", "upsert", "notify",
                    \* "summary", "failing" (in the except clause), "done",
                    \* "raised"; "idle" when run is not modelled
    run_jobs,       \* `jobs`, what search_jobs returned
    run_matched,    \* `matched_jobs`
    run_high,       \* `high_score_jobs`
    run_i,          \* the index of the job the running loop is at (from 1)
    run_exc,        \* the exception `e` the except clause caught
    run_result,     \* how run ended
    run_log,        \* the steps run went through and the calls it made
    \* ---- LinkedInScraper.build_search_url
    u_pc,           \* "idle", "build" (entered), "done"
    u_filters,      \* the `filters` argument
    u_url,          \* the URL returned: its query parameters, in order
    \* ---- the identity fetch_job_details gives a job
    id_pc,          \* "idle", "parse" (the page has arrived), "done"
    id_url,         \* the job_url argument
    id_attr,        \* the content urn attribute of the page, "" for none
    id_content,     \* the title, company, location and description of the page
    id_job,         \* job_data
    \* ---- ResumeParser.extract_text
    p_method,       \* the `method` argument
    p_pc,           \* "idle", "pdfplumber", "pypdf2" (inside the strategy's
                    \* retried call), "invalid", "done", "raised"
    p_w,            \* the frame of the retry wrapper around the strategy
    p_result,       \* how extract_text ended: the length of the text returned
    p_log,          \* how the retried call of each strategy ended, in order
    \* ---- main in scheduled mode
    sc_pc,          \* "idle", "start", "waiting" (in the loop), "exited"
    sc_valid,       \* whether SCHEDULE_TIME parses
    sc_pass,        \* the passes of the waiting loop so far
    sc_next_run,    \* the pass at which the job is due next
    sc_runs,        \* how each run_once() call ended, in order
    sc_status       \* the exit status of the process

retryVars == <<r_cfg, r_w>>
rateVars  == <<rl_cfg, last_called, rl_log>>
matchVars == <<m_jobs, m_pc, m_i, m_w, m_api, matched_jobs, m_hist>>
searchVars == <<s_pc, s_max_jobs, s_w, s_last_called, s_links, job_links, s_i,
                jobs, s_http>>
notifyVars == <<n_args, n_self, n_pc, n_op, n_w, n_sent, n_result>>
sheetsVars == <<sheet, sh_pc, sh_job, sh_w, sh_before, sh_jobs, sh_i, sh_hist>>
runVars   == <<run_pc, run_jobs, run_matched, run_high, run_i, run_exc,
               run_result, run_log>>
urlVars   == <<u_pc, u_filters, u_url>>
identVars == <<id_pc, id_url, id_attr, id_content, id_job>>
parseVars == <<p_method, p_pc, p_w, p_result, p_log>>
schedVars == <<sc_pc, sc_valid, sc_pass, sc_next_run, sc_runs, sc_status>>
extraVars == <<urlVars, identVars, parseVars, schedVars>>
vars      == <<retryVars, rateVars, now, matchVars, searchVars, notifyVars,
               sheetsVars, runVars,
                 extraVars>>

\* What the actions of one component leave alone
notRetryVars  == <<rateVars, now, matchVars, searchVars, notifyVars,
                   sheetsVars, runVars,
                 extraVars>>
notRateVars   == <<retryVars, matchVars, searchVars, notifyVars, sheetsVars,
                   runVars,
                 extraVars>>
notMatchVars  == <<retryVars, rateVars, now, searchVars, notifyVars,
                   sheetsVars, runVars,
                 extraVars>>
notSearchVars == <<retryVars, rateVars, matchVars, notifyVars, sheetsVars,
                   runVars,
                 extraVars>>
notNotifyVars == <<retryVars, rateVars, now, matchVars, searchVars, sheetsVars,
                   runVars,
                 extraVars>>
notSheetsVars == <<retryVars, rateVars, now, matchVars, searchVars, notifyVars,
                   runVars,
                 extraVars>>

-----------------------------------------------------------------------------
(* Bounds of the model *)

MaxRetriesBound == 3      \* max_retries is drawn from 0..MaxRetriesBound
MaxDelay        == 2      \* delay is drawn from 1..MaxDelay
MaxBackoff      == 3      \* backoff is drawn from 1..MaxBackoff
MaxInvocations  == 3      \* invocations of the rate-limited operation
MaxTime         == 4      \* idle time passes only up to StartTime + MaxTime
MaxPeriod       == 4      \* period is drawn from 1..MaxPeriod
StartTime       == 10     \* time.time() when the program starts
MaxJobs         == 2      \* batch_match_jobs is given at most MaxJobs jobs
MaxLinks        == 3      \* the search page lists at most MaxLinks jobs

NoExc == "none"
NoVal == "none"

Exceptions == {"E1", "E2"}
Values     == {"V1", "V2"}

Returned(v) == [kind |-> "return", exc |-> NoExc, val |-> v]
Raised(e)   == [kind |-> "raise",  exc |-> e,     val |-> NoVal]

RECURSIVE Pow(_, _)
Pow(b, n) == IF n = 0 THEN 1 ELSE b * Pow(b, n - 1)

-----------------------------------------------------------------------------
(* retry_on_failure (utils.py 65-103) *)

\* wrapper's frame on entry: current_delay = delay, last_exception = None.
\* pc is "loop" while the for loop runs, then "returned" or "raised".
\* log is the trace of what the wrapper did: calls of func and sleeps.
RetryEnter(cfg) ==
    [ attempt        |-> 0,
      current_delay  |-> cfg.delay,
      last_exception |-> NoExc,
      pc             |-> "loop",
      result         |-> NoVal,
      raised         |-> NoExc,
      log            |-> <<>> ]

CallEvent(outcome) == [ev |-> "call",  outcome |-> outcome,       secs |-> 0]
SleepEvent(d)      == [ev |-> "sleep", outcome |-> Returned(NoVal), secs |-> d]

\* Whether a failed attempt is followed by a sleep and another attempt.
RetryAttemptsRemain_NoFinalAttempt(attempt, max_retries) == attempt + 1 < max_retries

RetryAttemptsRemain(attempt, max_retries) == attempt < max_retries

\* The delay after one more failed attempt.
RetryNextDelay_Additive(current_delay, backoff) == current_delay + backoff

RetryNextDelay(current_delay, backoff) == current_delay * backoff

\* One iteration of `for attempt in range(max_retries + 1)` whose call of func
\* ended in `outcome`, and the `raise last_exception` that follows the last one.
RetryAttempt(w, cfg, outcome) ==
    LET called == [w EXCEPT !.log = Append(@, CallEvent(outcome))]
    IN  IF outcome.kind = "return"
        THEN [called EXCEPT !.pc = "returned", !.result = outcome.val]
        ELSE LET failed == [called EXCEPT !.last_exception = outcome.exc]
             IN  IF RetryAttemptsRemain(w.attempt, cfg.max_retries)
                 THEN [failed EXCEPT
                          !.log = Append(@, SleepEvent(w.current_delay)),
                          !.current_delay = RetryNextDelay(@, cfg.backoff),
                          !.attempt = @ + 1]
                 ELSE [failed EXCEPT !.pc = "raised",
                                     !.raised = failed.last_exception]

\* What the log says
CallsOf(log)  == SelectSeq(log, LAMBDA e : e.ev = "call")
SleepsOf(log) == SelectSeq(log, LAMBDA e : e.ev = "sleep")
FailedCallsOf(log) ==
    SelectSeq(log, LAMBDA e : e.ev = "call" /\ e.outcome.kind = "raise")

RetryConfigs ==
    [max_retries : 0..MaxRetriesBound, delay : 1..MaxDelay, backoff : 1..MaxBackoff]

RetryIdle ==
    /\ r_cfg = [max_retries |-> 0, delay |-> 1, backoff |-> 1]
    /\ r_w = [RetryEnter(r_cfg) EXCEPT !.pc = "idle"]

InitRetryVars ==
    /\ r_cfg \in RetryConfigs
    /\ r_w = RetryEnter(r_cfg)

\* The wrapped operation is called once and returns a value or raises.
RetryCall ==
    /\ r_w.pc = "loop"
    /\ \E outcome \in {Returned(v) : v \in Values} \cup {Raised(e) : e \in Exceptions} :
          r_w' = RetryAttempt(r_w, r_cfg, outcome)
    /\ UNCHANGED <<r_cfg, notRetryVars>>

\* The decorated function is called again.
RetryAgain ==
    /\ r_w.pc \in {"returned", "raised"}
    /\ r_w' = RetryEnter(r_cfg)
    /\ UNCHANGED <<r_cfg, notRetryVars>>

-----------------------------------------------------------------------------
(* rate_limit (utils.py 106-134) *)

\* min_interval = period / calls; the model draws only pairs that divide.
min_interval(cfg) == cfg.period \div cfg.calls

RateConfigs ==
    { c \in [calls : 1..2, period : 1..MaxPeriod] : c.period % c.calls = 0 }

\* The time to sleep before the call: left_to_wait when it is positive.
RateWait(cfg, last, t) ==
    LET elapsed      == t - last
        left_to_wait == min_interval(cfg) - elapsed
    IN  IF left_to_wait > 0 THEN left_to_wait ELSE 0

\* last_called[0] after the call of func that began at `start`, took `dur`
\* and ended in `outcome`: the assignment is skipped when func raises.
RateStamp_Always(last, start, dur, outcome) == start + dur

RateStamp(last, start, dur, outcome) ==
    IF outcome.kind = "return" THEN start + dur ELSE last

RateIdle ==
    /\ rl_cfg = [calls |-> 1, period |-> 1]
    /\ last_called = 0
    /\ rl_log = <<>>

InitRateVars ==
    /\ rl_cfg \in RateConfigs
    /\ last_called = 0
    /\ rl_log = <<>>

InitClock == now = StartTime

\* One call of the rate-limited wrapper: wait, call func, stamp.
RateLimitedCall ==
    /\ Len(rl_log) < MaxInvocations
    /\ \E outcome \in {Returned("V1"), Raised("E1")}, dur \in 0..1 :
          LET start == now + RateWait(rl_cfg, last_called, now)
          IN  /\ rl_log' = Append(rl_log, [start |-> start, end |-> start + dur,
                                          kind |-> outcome.kind])
              /\ last_called' = RateStamp(last_called, start, dur, outcome)
              /\ now' = start + dur
    /\ UNCHANGED <<rl_cfg, notRateVars>>

\* Time passes between two calls.
Tick ==
    /\ now < StartTime + MaxTime
    /\ now' = now + 1
    /\ UNCHANGED <<rl_cfg, last_called, rl_log, notRateVars>>

-----------------------------------------------------------------------------
(* AIMatcher (ai_matcher.py) *)

\* @retry_on_failure(max_retries=3, delay=2.0, backoff=2.0) on match_job
MatchMaxRetries == 3
MatchDelay      == 2
MatchBackoff    == 2
MatchRetryCfg ==
    [max_retries |-> MatchMaxRetries, delay |-> MatchDelay, backoff |-> MatchBackoff]

\* len(job_description) < 50
MinDescLen == 50

\* A job description is its length, or NoDesc when it is None.
NoDesc == -1
Descriptions == {NoDesc, 0, MinDescLen - 1, MinDescLen}

Sentinel == [score |-> 0, coverLetter |-> ""]

\* `not job_description or len(job_description) < 50`
IsTooShort_OffByOne(description) ==
    description = NoDesc \/ description = 0 \/ description < MinDescLen - 1

IsTooShort(description) ==
    description = NoDesc \/ description = 0 \/ description < MinDescLen

\* The value of the "score" field of the parsed response: a JSON number
\* without a fraction (int), with one (float, n in tenths), a string that
\* int() reads (numstr), any other string (str), or null.
ScoreValues ==
    [t : {"int"}, n : {-5, 85, 150}]
        \cup [t : {"float"}, n : {-5, 857, 1005}]
        \cup [t : {"numstr"}, n : {85}]
        \cup [t : {"str", "null"}, n : {0}]

NoScore == [t |-> "none", n |-> 0]

\* What the chat completion does: the request raises (error), or it answers
\* with no message content (absent: None), or with text that, once the code
\* fences are stripped, is not JSON (invalid), is a JSON number, boolean or
\* null (scalar), or is a JSON object that has the keys "score" and
\* "coverLetter" or not.  A JSON array or string without the two names acts
\* as an object without the keys.
ApiBehaviours ==
    { [api |-> "error",   json |-> "none",    has_score |-> FALSE,
       has_cover |-> FALSE, score |-> NoScore, coverLetter |-> ""] }
    \cup
    { [api |-> "content", json |-> j, has_score |-> FALSE,
       has_cover |-> FALSE, score |-> NoScore, coverLetter |-> ""] :
         j \in {"absent", "invalid", "scalar"} }
    \cup
    { [api |-> "content", json |-> "object", has_score |-> hs,
       has_cover |-> hc, score |-> NoScore, coverLetter |-> ""] :
         hs \in {FALSE}, hc \in BOOLEAN }
    \cup
    { [api |-> "content", json |-> "object", has_score |-> TRUE,
       has_cover |-> FALSE, score |-> sv, coverLetter |-> ""] :
         sv \in {[t |-> "int", n |-> 85]} }
    \cup
    { [api |-> "content", json |-> "object", has_score |-> TRUE,
       has_cover |-> TRUE, score |-> sv, coverLetter |-> cl] :
         sv \in ScoreValues, cl \in {"letter"} }

\* int(x): a float is truncated towards zero
IntOf(sv) ==
    IF sv.t = "float"
    THEN (IF sv.n >= 0 THEN sv.n \div 10 ELSE -((-sv.n) \div 10))
    ELSE sv.n

IntRaises(sv) == sv.t \in {"str", "null"}

IntError(sv) == IF sv.t = "null" THEN "TypeError" ELSE "ValueError"

\* max(0, min(100, score))
Clamp(score) ==
    LET m == IF score < 100 THEN score ELSE 100
    IN  IF m > 0 THEN m ELSE 0

\* `except Exception as e: ... raise`: what match_job does with an error of
\* the API request.
OnApiError_Swallow == Returned(Sentinel)

OnApiError == Raised("APIError")

\* The body of match_job for one attempt, given what the API does.  `sent`
\* tells whether the request was sent.
match_job(description, api) ==
    IF IsTooShort(description)
    THEN [outcome |-> Returned(Sentinel), sent |-> 0]
    ELSE [ sent |-> 1,
           outcome |->
             IF api.api = "error" THEN OnApiError
             ELSE IF api.json = "absent" THEN Raised("AttributeError") \* None.strip()
             ELSE IF api.json = "invalid" THEN Returned(Sentinel)   \* JSONDecodeError
             ELSE IF api.json = "scalar" THEN Raised("TypeError")   \* 'score' not in 42
             ELSE IF ~api.has_score \/ ~api.has_cover THEN Returned(Sentinel)
             ELSE IF IntRaises(api.score) THEN Raised(IntError(api.score))
             ELSE Returned([score |-> Clamp(IntOf(api.score)),
                            coverLetter |-> api.coverLetter]) ]

\* `if result:` in batch_match_jobs: a dict with two keys is true
ResultIsTruthy_ByScore(result) == result.score # 0

ResultIsTruthy(result) == TRUE

\* A job of the `jobs` argument: its place in the list stands for its title,
\* company and url.
Job(i, description) == [id |-> i, description |-> description]

MatchIdle ==
    /\ m_jobs = <<>>
    /\ m_pc = "idle"
    /\ m_i = 0
    /\ m_w = [RetryEnter(MatchRetryCfg) EXCEPT !.pc = "idle"]
    /\ m_api = <<>>
    /\ matched_jobs = <<>>
    /\ m_hist = <<>>

\* batch_match_jobs(resume_text, jobs) is entered: matched_jobs = [] and the
\* loop reaches its first job, if there is one.
InitMatchVars ==
    /\ \E n \in 0..MaxJobs : \E ds \in [1..n -> Descriptions] :
          m_jobs = [i \in 1..n |-> Job(i, ds[i])]
    /\ m_pc = IF Len(m_jobs) = 0 THEN "done" ELSE "matching"
    /\ m_i = 1
    /\ m_w = RetryEnter(MatchRetryCfg)
    /\ m_api = <<>>
    /\ matched_jobs = <<>>
    /\ m_hist = <<>>

\* One attempt of the retry wrapper at match_job for job m_i.
MatchAttempt ==
    /\ m_pc = "matching"
    /\ m_w.pc = "loop"
    /\ \E api \in ApiBehaviours :
          LET r == match_job(m_jobs[m_i].description, api)
              w == RetryAttempt(m_w, MatchRetryCfg, r.outcome)
          IN  /\ m_w' = w
              /\ m_api' = IF r.sent = 1 THEN Append(m_api, api) ELSE m_api
              /\ m_pc' = IF w.pc = "loop" THEN "matching" ELSE "collect"
    /\ UNCHANGED <<m_jobs, m_i, matched_jobs, m_hist, notMatchVars>>

\* The rest of the loop body: the result is stored in the job, which is
\* appended; an exception is logged and the loop continues.  After the last
\* job matched_jobs is returned.
BatchCollect ==
    /\ m_pc = "collect"
    /\ matched_jobs' =
          IF m_w.pc = "returned" /\ ResultIsTruthy(m_w.result)
          THEN Append(matched_jobs,
                      [id          |-> m_jobs[m_i].id,
                       description |-> m_jobs[m_i].description,
                       score       |-> m_w.result.score,
                       coverLetter |-> m_w.result.coverLetter])
          ELSE matched_jobs
    /\ m_hist' = Append(m_hist, IF m_w.pc = "returned"
                                 THEN Returned(m_w.result)
                                 ELSE Raised(m_w.raised))
    /\ m_i' = m_i + 1
    /\ m_pc' = IF m_i < Len(m_jobs) THEN "matching" ELSE "done"
    /\ m_w' = RetryEnter(MatchRetryCfg)
    /\ m_api' = <<>>
    /\ UNCHANGED <<m_jobs, notMatchVars>>

-----------------------------------------------------------------------------
(* LinkedInScraper (linkedin_scraper.py) *)

\* @retry_on_failure(max_retries=3, delay=2.0) and @rate_limit(calls=1,
\* period=2.0) on fetch_search_results and on fetch_job_details; backoff is
\* retry_on_failure's default.
ScrapeRetryCfg == [max_retries |-> 3, delay |-> 2, backoff |-> 2]
ScrapeRateCfg  == [calls |-> 1, period |-> 2]

\* LinkedInScraper(delay_seconds=10)
DelaySeconds == 10

\* job_data of a parsed detail page, and the None returned instead of it
JobData(job_url) == [found |-> TRUE,  url |-> job_url]
None             == [found |-> FALSE, url |-> 0]

\* `if job_data:` in search_jobs
IsJobData(v) == v.found

\* What the GET of a detail page does: the page arrives and is parsed (ok),
\* the request raises a RequestException, or the parsing raises.
DetailBehaviours == {"ok", "request_error", "parse_error"}

\* The two except clauses of fetch_job_details: log, return None.
OnDetailFailure_Reraise(page) ==
    Raised(IF page = "request_error" THEN "RequestException" ELSE "Exception")

OnDetailFailure(page) == Returned(None)

\* The body of fetch_job_details for one call, given what the GET does.
fetch_job_details(job_url, page) ==
    IF page = "ok" THEN Returned(JobData(job_url)) ELSE OnDetailFailure(page)

\* The body of fetch_search_results: the page's links, or the
\* RequestException re-raised.  n is the number of job cards of the page.
fetch_search_results(n) ==
    IF n < 0 THEN Raised("RequestException") ELSE Returned([i \in 1..n |-> i])

\* job_links[:max_jobs], max_jobs >= 0
Truncate_KeepAll(links, max_jobs) == links

Truncate(links, max_jobs) ==
    SubSeq(links, 1, IF Len(links) < max_jobs THEN Len(links) ELSE max_jobs)

\* The seconds the retry wrapper slept in the attempt that led from w to w2.
RetrySlept(w, w2) == IF w2.pc = "loop" THEN w.current_delay ELSE 0

SearchIdle ==
    /\ s_pc = "idle"
    /\ s_max_jobs = 0
    /\ s_w = [RetryEnter(ScrapeRetryCfg) EXCEPT !.pc = "idle"]
    /\ s_last_called = [search |-> 0, detail |-> 0]
    /\ s_links = <<>>
    /\ job_links = <<>>
    /\ s_i = 0
    /\ jobs = <<>>
    /\ s_http = <<>>

\* search_jobs(filters, max_jobs) is entered, about to fetch the search page.
InitSearchVars ==
    /\ s_pc = "search"
    /\ s_max_jobs \in 0..MaxLinks
    /\ s_w = RetryEnter(ScrapeRetryCfg)
    /\ s_last_called = [search |-> 0, detail |-> 0]
    /\ s_links = <<>>
    /\ job_links = <<>>
    /\ s_i = 0
    /\ jobs = <<>>
    /\ s_http = <<>>

\* One attempt of the retry wrapper at the rate-limited fetch_search_results;
\* when it returns, the links are extracted and cut to max_jobs, and when it
\* raises for the last time search_jobs raises.
SearchFetchAttempt ==
    /\ s_pc = "search"
    /\ \E n \in -1..MaxLinks :
          LET start   == now + RateWait(ScrapeRateCfg, s_last_called.search, now)
              outcome == fetch_search_results(n)
              w       == RetryAttempt(s_w, ScrapeRetryCfg, outcome)
              links   == IF w.pc = "returned" THEN w.result ELSE <<>>
              cut     == Truncate(links, s_max_jobs)
          IN  /\ s_last_called' =
                    [s_last_called EXCEPT
                        !.search = RateStamp(@, start, 0, outcome)]
              /\ now' = start + RetrySlept(s_w, w)
              /\ s_links' = links
              /\ job_links' = cut
              /\ s_http' = [i \in 1..Len(cut) |-> <<>>]
              /\ s_i' = IF w.pc = "returned" THEN 1 ELSE s_i
              /\ s_pc' = CASE w.pc = "loop"   -> "search"
                           [] w.pc = "raised" -> "raised"
                           [] Len(cut) = 0    -> "done"
                           [] OTHER           -> "details"
              /\ s_w' = IF w.pc = "returned" /\ Len(cut) > 0
                        THEN RetryEnter(ScrapeRetryCfg) ELSE w
    /\ UNCHANGED <<s_max_jobs, jobs, notSearchVars>>

\* The rate_limit closure whose last_called the wrapper of fetch_job_details
\* reads and writes: the one its own @rate_limit(calls=1, period=2.0) made.
DetailClosure_Shared == "search"

DetailClosure == "detail"

\* One attempt of the retry wrapper at the rate-limited fetch_job_details for
\* job_links[s_i] (which sleeps delay_seconds before its GET), and, when the
\* wrapper returns, the rest of the loop body: job_data is appended if it is
\* not None, and the loop moves on.
DetailFetchAttempt ==
    /\ s_pc = "details"
    /\ \E page \in DetailBehaviours :
          LET start   == now + RateWait(ScrapeRateCfg,
                                        s_last_called[DetailClosure], now)
              outcome == fetch_job_details(job_links[s_i], page)
              w       == RetryAttempt(s_w, ScrapeRetryCfg, outcome)
          IN  /\ s_last_called' =
                    [s_last_called EXCEPT
                        ![DetailClosure] =
                            RateStamp(@, start, DelaySeconds, outcome)]
              /\ now' = start + DelaySeconds + RetrySlept(s_w, w)
              /\ s_http' = [s_http EXCEPT ![s_i] = Append(@, page)]
              /\ jobs' = IF w.pc = "returned" /\ IsJobData(w.result)
                         THEN Append(jobs, w.result) ELSE jobs
              /\ s_i' = IF w.pc = "returned" THEN s_i + 1 ELSE s_i
              /\ s_pc' = CASE w.pc = "loop"      -> "details"
                           [] w.pc = "raised"    -> "raised"
                           [] s_i < Len(job_links) -> "details"
                           [] OTHER              -> "done"
              /\ s_w' = IF w.pc = "returned" /\ s_i < Len(job_links)
                        THEN RetryEnter(ScrapeRetryCfg) ELSE w
    /\ UNCHANGED <<s_max_jobs, s_links, job_links, notSearchVars>>

-----------------------------------------------------------------------------
(* TelegramNotifier (notifier.py) *)

\* @retry_on_failure(max_retries=3, delay=2.0) on send_message; backoff is the
\* decorator's default.
NotifyRetryCfg == [max_retries |-> 3, delay |-> 2, backoff |-> 2]

\* The constructor's arguments: the enabled flag, whether bot_token and chat_id
\* are non-empty, and what Bot(token=bot_token) does.
NotifierArgs ==
    [enabled : BOOLEAN, bot_token : BOOLEAN, chat_id : BOOLEAN,
     bot : {"ok", "error"}]

\* `not bot_token or not chat_id`
CredentialsMissing_Both(bot_token, chat_id) == ~bot_token /\ ~chat_id

CredentialsMissing(bot_token, chat_id) == ~bot_token \/ ~chat_id

\* __init__: self.enabled and self.bot after construction.
NotifierInit(args) ==
    IF ~args.enabled
    THEN [enabled |-> FALSE, bot |-> FALSE]
    ELSE IF CredentialsMissing(args.bot_token, args.chat_id)
         THEN [enabled |-> FALSE, bot |-> FALSE]
         ELSE IF args.bot = "ok"
              THEN [enabled |-> TRUE,  bot |-> TRUE]
              ELSE [enabled |-> FALSE, bot |-> FALSE]

\* What self.bot.send_message does: it delivers the message, raises a
\* TelegramError, or raises some other exception.
ChannelBehaviours == {"ok", "TelegramError", "Exception"}

\* The two except clauses of send_message.
OnSendFailure_Reraise(exc) == Raised(exc)

OnSendFailure_ReraiseTelegramError(exc) ==
    IF exc = "TelegramError" THEN Raised(exc) ELSE Returned(FALSE)

OnSendFailure(exc) == Returned(FALSE)

\* The body of send_message, run once: its outcome, and what it asked of the
\* channel (nothing when it returned early or self.bot is None).
send_message(self, chan) ==
    IF ~self.enabled
    THEN [outcome |-> Returned(FALSE), sent |-> <<>>]
    ELSE IF ~self.bot
         THEN [outcome |-> OnSendFailure("Exception"), sent |-> <<>>]
         ELSE [outcome |-> IF chan = "ok" THEN Returned(TRUE)
                                          ELSE OnSendFailure(chan),
               sent    |-> <<chan>>]

\* send_message and the three methods that format a message and hand it to
\* send_message.
NotifyOps ==
    {"send_message", "send_job_notification", "send_batch_summary",
     "send_error_notification"}

\* `if not self.enabled: return False` at the head of the three formatting
\* methods.
ReturnsBeforeSend(op, self) == op # "send_message" /\ ~self.enabled

NotifyIdle ==
    /\ n_args = [enabled |-> FALSE, bot_token |-> FALSE, chat_id |-> FALSE,
                 bot |-> "ok"]
    /\ n_self = [enabled |-> FALSE, bot |-> FALSE]
    /\ n_pc = "idle"
    /\ n_op = "none"
    /\ n_w = [RetryEnter(NotifyRetryCfg) EXCEPT !.pc = "idle"]
    /\ n_sent = <<>>
    /\ n_result = Returned(NoVal)

\* A notifier has been constructed and none of its methods called yet.
InitNotifyVars ==
    /\ n_args \in NotifierArgs
    /\ n_self = NotifierInit(n_args)
    /\ n_pc = "ready"
    /\ n_op = "none"
    /\ n_w = [RetryEnter(NotifyRetryCfg) EXCEPT !.pc = "idle"]
    /\ n_sent = <<>>
    /\ n_result = Returned(NoVal)

\* One of the four methods is called: a formatting method of a disabled
\* notifier returns False at once, any other call enters the retry wrapper of
\* send_message.
NotifyEnter ==
    /\ n_pc \in {"ready", "done"}
    /\ \E op \in NotifyOps :
          /\ n_op' = op
          /\ IF ReturnsBeforeSend(op, n_self)
             THEN /\ n_pc' = "done"
                  /\ n_result' = Returned(FALSE)
                  /\ n_w' = [RetryEnter(NotifyRetryCfg) EXCEPT !.pc = "idle"]
             ELSE /\ n_pc' = "sending"
                  /\ n_result' = Returned(NoVal)
                  /\ n_w' = RetryEnter(NotifyRetryCfg)
    /\ n_sent' = <<>>
    /\ UNCHANGED <<n_args, n_self, notNotifyVars>>

\* One attempt of the retry wrapper at send_message; the method returns or
\* raises what the wrapper does.
SendAttempt ==
    /\ n_pc = "sending"
    /\ \E chan \in ChannelBehaviours :
          LET body == send_message(n_self, chan)
              w2   == RetryAttempt(n_w, NotifyRetryCfg, body.outcome)
          IN  /\ n_w' = w2
              /\ n_sent' = n_sent \o body.sent
              /\ IF w2.pc = "loop"
                 THEN UNCHANGED <<n_pc, n_result>>
                 ELSE /\ n_pc' = "done"
                      /\ n_result' = IF w2.pc = "returned"
                                     THEN Returned(w2.result)
                                     ELSE Raised(w2.raised)
    /\ UNCHANGED <<n_args, n_self, n_op, notNotifyVars>>

-----------------------------------------------------------------------------
(* The job records that reach the sheet (linkedin_scraper.py 205-251,
   ai_matcher.py 173-177) *)

\* The job URLs of the model: two hosts for the posting with id 1, and a URL
\* whose path has no digits right after /jobs/view/.
Urls ==
    { "https://www.linkedin.com/jobs/view/1",
      "https://uk.linkedin.com/jobs/view/1",
      "https://www.linkedin.com/jobs/view/dev-2" }

\* re.search(r'/jobs/view/(\d+)', job_url): group 1, "" when there is no match.
UrlViewId(job_url) ==
    CASE job_url \in { "https://www.linkedin.com/jobs/view/1",
                       "https://uk.linkedin.com/jobs/view/1" } -> "1"
      [] job_url = "https://www.linkedin.com/jobs/view/2"      -> "2"
      [] OTHER                                                 -> ""

\* The last ':' segment of data-semaphore-content-urn on the detail page, ""
\* when the page has no such element or attribute.
Urns == {"", "2"}

\* job_data['job_id']: the embedded id when there is one, else the id in the URL.
JobIdOf_UrlFirst(urn, job_url) ==
    IF UrlViewId(job_url) # "" THEN UrlViewId(job_url) ELSE urn

JobIdOf(urn, job_url) == IF urn # "" THEN urn ELSE UrlViewId(job_url)

\* f"https://www.linkedin.com/jobs/view/{job_id}"
CanonicalLink(job_id) ==
    IF job_id = "1" THEN "https://www.linkedin.com/jobs/view/1"
                    ELSE "https://www.linkedin.com/jobs/view/2"

\* job_data['apply_link']
ApplyLink(job_id, job_url) ==
    IF job_id # "" THEN CanonicalLink(job_id) ELSE job_url

\* The detail pages of the model: a URL and the embedded id of its page.
DetailPages ==
    { [url |-> "https://www.linkedin.com/jobs/view/1",     urn |-> ""],
      [url |-> "https://uk.linkedin.com/jobs/view/1",      urn |-> ""],
      [url |-> "https://www.linkedin.com/jobs/view/dev-2", urn |-> ""] }

\* What the page and the matcher say about a job, apart from its identity.
JobContents ==
    { [title |-> "Engineer", company |-> "Acme", location |-> "Berlin",
       description |-> "d1", score |-> 40, coverLetter |-> "c1"],
      [title |-> "Developer", company |-> "Initech", location |-> "Remote",
       description |-> "d2", score |-> 90, coverLetter |-> "c2"] }

\* The dict fetch_job_details returns, with the score and coverLetter that
\* batch_match_jobs adds to it.
JobRecord(page, content) ==
    [ url         |-> page.url,
      title       |-> content.title,
      company     |-> content.company,
      location    |-> content.location,
      description |-> content.description,
      job_id      |-> JobIdOf(page.urn, page.url),
      apply_link  |-> ApplyLink(JobIdOf(page.urn, page.url), page.url),
      score       |-> content.score,
      coverLetter |-> content.coverLetter ]

MatchedJobs == { JobRecord(p, c) : p \in DetailPages, c \in JobContents }

NoJob ==
    [ url |-> "", title |-> "", company |-> "", location |-> "",
      description |-> "", job_id |-> "", apply_link |-> "", score |-> 0,
      coverLetter |-> "" ]

-----------------------------------------------------------------------------
(* SheetsManager (sheets_manager.py) *)

\* The sheet is the sequence of its rows, a row the sequence of its cells as
\* get_all_values() reads them (strings).

Headers ==
    <<"Title", "Company", "Location", "Link", "Score", "Description",
      "Cover Letter">>

\* `row` of update_or_append_job, each value as its cell reads back.
RowOf(job_data) ==
    << job_data.title, job_data.company, job_data.location,
       job_data.apply_link, ToString(job_data.score), job_data.description,
       job_data.coverLetter >>

\* @retry_on_failure(max_retries=3, delay=2.0) on update_or_append_job
SheetRetryCfg == [max_retries |-> 3, delay |-> 2, backoff |-> 2]

\* The calls a method makes that change the sheet.
AppendRow(values)      == [op |-> "append_row",  r |-> 0, c |-> 0, values |-> values]
InsertRow(values)      == [op |-> "insert_row",  r |-> 1, c |-> 0, values |-> values]
UpdateCell(r, c, value) == [op |-> "update_cell", r |-> r, c |-> c, values |-> <<value>>]

ApplyWrite(rows, wr) ==
    CASE wr.op = "append_row"  -> Append(rows, wr.values)
      [] wr.op = "insert_row"  -> <<wr.values>> \o rows
      [] wr.op = "update_cell" -> [rows EXCEPT ![wr.r][wr.c] = wr.values[1]]

RECURSIVE ApplyWrites(_, _, _)
ApplyWrites(rows, writes, k) ==
    IF k = 0 THEN rows
    ELSE ApplyWrite(ApplyWrites(rows, writes, k - 1), writes[k])

\* What the spreadsheet API does during one execution of a method body:
\* ReadFails when worksheet() or get_all_values() raises, else the number of
\* writing calls that succeed before one raises; from RowWidth on none does.
RowWidth == 7
ReadFails == -1
SheetApi == {ReadFails, 1, 5, RowWidth}

\* The except clauses of update_or_append_job and of ensure_headers: log, raise.
OnSheetFailure == Raised("APIError")

\* A method body that reads the sheet and then makes the calls `writes`.
SheetBody(rows, writes, api) ==
    IF api = ReadFails
    THEN [sheet |-> rows, outcome |-> OnSheetFailure]
    ELSE IF api >= Len(writes)
         THEN [sheet |-> ApplyWrites(rows, writes, Len(writes)),
               outcome |-> Returned(NoVal)]
         ELSE [sheet |-> ApplyWrites(rows, writes, api),
               outcome |-> OnSheetFailure]

\* `all_values[0] != [...]` of ensure_headers, negated.
HeaderMatches_Never(first_row) == FALSE

HeaderMatches(first_row) == first_row = Headers

\* The writes of ensure_headers on a sheet that reads as all_values.
EnsureWrites(all_values) ==
    IF all_values = <<>>
    THEN <<AppendRow(Headers)>>
    ELSE IF ~HeaderMatches(all_values[1])
         THEN <<InsertRow(Headers)>>
         ELSE <<>>

ensure_headers(rows, api) == SheetBody(rows, EnsureWrites(rows), api)

\* existing_row_index: the first row after the first whose fourth cell is
\* job_link, 0 for None.
FindRow_AppendOnly(all_values, job_link) == 0

FindRow_FirstDataRow(all_values, job_link) ==
    IF Len(all_values) >= 2 THEN 2 ELSE 0

FindRow_FromThirdRow(all_values, job_link) ==
    LET hits == { i \in 3..Len(all_values) :
                    Len(all_values[i]) > 3 /\ all_values[i][4] = job_link }
    IN  IF hits = {} THEN 0 ELSE CHOOSE i \in hits : \A k \in hits : i <= k

FindRow(all_values, job_link) ==
    LET hits == { i \in 2..Len(all_values) :
                    Len(all_values[i]) > 3 /\ all_values[i][4] = job_link }
    IN  IF hits = {} THEN 0 ELSE CHOOSE i \in hits : \A k \in hits : i <= k

\* The writes of update_or_append_job on a sheet that reads as rows.
UpsertWrites(rows, job_data) ==
    LET header     == IF rows = <<>> THEN <<AppendRow(Headers)>> ELSE <<>>
        all_values == IF rows = <<>> THEN <<Headers>> ELSE rows
        existing_row_index == FindRow(all_values, job_data.apply_link)
        row        == RowOf(job_data)
    IN  header \o
        ( IF existing_row_index # 0
          THEN [c \in 1..RowWidth |-> UpdateCell(existing_row_index, c, row[c])]
          ELSE <<AppendRow(row)>> )

update_or_append_job(rows, job_data, api) ==
    SheetBody(rows, UpsertWrites(rows, job_data), api)

\* The row update_or_append_job writes job_data to on a sheet that reads as
\* rows: the one it found, else the one it appends.
TargetRow(rows, job_data) ==
    LET all_values == IF rows = <<>> THEN <<Headers>> ELSE rows
        existing_row_index == FindRow(all_values, job_data.apply_link)
    IN  IF existing_row_index # 0 THEN existing_row_index
                                  ELSE Len(all_values) + 1

\* The `except Exception` of batch_append_jobs: log and continue.
BatchOnFailure_Reraise == "raise"

BatchOnFailure == "continue"

\* The sheets a call can find: with or without the header row, then up to
\* MaxInitRows rows of earlier jobs, which the owner of the sheet may have
\* edited or duplicated.
MaxInitRows == 2
MaxSheetOps == 2
MaxBatch    == 2

InitialRows ==
    { RowOf(j) : j \in { k \in MatchedJobs :
                          /\ k.url = "https://www.linkedin.com/jobs/view/1"
                          /\ k.score = 40 } }

InitialSheets ==
    LET data == UNION { [1..n -> InitialRows] : n \in 0..MaxInitRows }
    IN  data \cup { <<Headers>> \o d : d \in data }

\* The sheets batch_append_jobs is called on in the model.
BatchSheets ==
    { rows \in InitialSheets :
        Len(SelectSeq(rows, LAMBDA row : row # Headers)) <= 1 }

\* One finished call: the method, its job_data, how it ended, the sheet before
\* and after it, and the row update_or_append_job wrote to (0 for none).
Finished(op, job_data, outcome, before, after, row) ==
    [ op |-> op, job |-> job_data, outcome |-> outcome.kind,
      before |-> before, after |-> after, row |-> row ]

SheetsIdle ==
    /\ sheet = <<>>
    /\ sh_pc = "idle"
    /\ sh_job = NoJob
    /\ sh_w = [RetryEnter(SheetRetryCfg) EXCEPT !.pc = "idle"]
    /\ sh_before = <<>>
    /\ sh_jobs = <<>>
    /\ sh_i = 0
    /\ sh_hist = <<>>

\* A SheetsManager is connected to a sheet; no method is running.
InitSheetsVars ==
    /\ sheet \in InitialSheets
    /\ sh_pc = "ready"
    /\ sh_job = NoJob
    /\ sh_w = [RetryEnter(SheetRetryCfg) EXCEPT !.pc = "idle"]
    /\ sh_before = <<>>
    /\ sh_jobs = <<>>
    /\ sh_i = 0
    /\ sh_hist = <<>>

\* batch_append_jobs(jobs) has been entered on a sheet.
InitBatchVars ==
    /\ sheet \in BatchSheets
    /\ sh_jobs \in UNION { [1..n -> MatchedJobs] : n \in 0..MaxBatch }
    /\ sh_pc = IF sh_jobs = <<>> THEN "done" ELSE "batch"
    /\ sh_i = 1
    /\ sh_job = IF sh_jobs = <<>> THEN NoJob ELSE sh_jobs[1]
    /\ sh_w = IF sh_jobs = <<>>
              THEN [RetryEnter(SheetRetryCfg) EXCEPT !.pc = "idle"]
              ELSE RetryEnter(SheetRetryCfg)
    /\ sh_before = sheet
    /\ sh_hist = <<>>

\* A call of ensure_headers, which is not retried: it returns or raises.
EnsureHeaders ==
    /\ sh_pc = "ready"
    /\ Len(sh_hist) < MaxSheetOps
    /\ \E api \in SheetApi :
          LET body == ensure_headers(sheet, api)
          IN  /\ sheet' = body.sheet
              /\ sh_hist' = Append(sh_hist,
                     Finished("ensure_headers", NoJob, body.outcome, sheet,
                              body.sheet, 0))
    /\ UNCHANGED <<sh_pc, sh_job, sh_w, sh_before, sh_jobs, sh_i, notSheetsVars>>

\* update_or_append_job(job_data) is called on its own.
UpsertEnter ==
    /\ sh_pc = "ready"
    /\ Len(sh_hist) < MaxSheetOps
    /\ \E job_data \in MatchedJobs : sh_job' = job_data
    /\ sh_pc' = "upsert"
    /\ sh_w' = RetryEnter(SheetRetryCfg)
    /\ sh_before' = sheet
    /\ UNCHANGED <<sheet, sh_jobs, sh_i, sh_hist, notSheetsVars>>

\* One attempt of the retry wrapper at update_or_append_job.
UpsertAttempt ==
    /\ sh_pc = "upsert"
    /\ \E api \in SheetApi :
          LET body == update_or_append_job(sheet, sh_job, api)
              w2   == RetryAttempt(sh_w, SheetRetryCfg, body.outcome)
          IN  /\ sheet' = body.sheet
              /\ sh_w' = w2
              /\ IF w2.pc = "loop"
                 THEN UNCHANGED <<sh_pc, sh_hist>>
                 ELSE /\ sh_pc' = "ready"
                      /\ sh_hist' = Append(sh_hist,
                             Finished("update_or_append_job", sh_job,
                                      body.outcome, sh_before, body.sheet,
                                      IF w2.pc = "returned"
                                      THEN TargetRow(sheet, sh_job) ELSE 0))
    /\ UNCHANGED <<sh_job, sh_before, sh_jobs, sh_i, notSheetsVars>>

\* One attempt of the retry wrapper at the update_or_append_job call that
\* batch_append_jobs makes for jobs[i]; when the wrapper is done the loop goes
\* on to the next job, or the batch ends.
BatchUpsertAttempt ==
    /\ sh_pc = "batch"
    /\ \E api \in SheetApi :
          LET body == update_or_append_job(sheet, sh_job, api)
              w2   == RetryAttempt(sh_w, SheetRetryCfg, body.outcome)
              more == sh_i < Len(sh_jobs)
              stop == w2.pc = "raised" /\ BatchOnFailure = "raise"
          IN  /\ sheet' = body.sheet
              /\ IF w2.pc = "loop"
                 THEN /\ sh_w' = w2
                      /\ UNCHANGED <<sh_pc, sh_job, sh_before, sh_i, sh_hist>>
                 ELSE /\ sh_hist' = Append(sh_hist,
                             Finished("update_or_append_job", sh_job,
                                      body.outcome, sh_before, body.sheet,
                                      IF w2.pc = "returned"
                                      THEN TargetRow(sheet, sh_job) ELSE 0))
                      /\ sh_before' = body.sheet
                      /\ IF stop
                         THEN /\ sh_pc' = "raised"
                              /\ sh_w' = w2
                              /\ UNCHANGED <<sh_job, sh_i>>
                         ELSE IF more
                              THEN /\ sh_i' = sh_i + 1
                                   /\ sh_job' = sh_jobs[sh_i + 1]
                                   /\ sh_w' = RetryEnter(SheetRetryCfg)
                                   /\ sh_pc' = "batch"
                              ELSE /\ sh_pc' = "done"
                                   /\ sh_w' = w2
                                   /\ UNCHANGED <<sh_job, sh_i>>
    /\ UNCHANGED <<sh_jobs, notSheetsVars>>

-----------------------------------------------------------------------------
(* JobSearchAutomation.run (main.py 134-208) *)

\* Calls of the collaborators, each taken as one step of run.

\* The retry wrapper run to its end when every call of func ends in outcome.
RECURSIVE RetryRun(_, _, _)
RetryRun(w, cfg, outcome) ==
    IF w.pc # "loop" THEN w
    ELSE RetryRun(RetryAttempt(w, cfg, outcome), cfg, outcome)

\* A whole call of one of the notifier's methods when the channel behaves as
\* chan at every send.
NotifyCall(op, self, chan) ==
    IF ReturnsBeforeSend(op, self)
    THEN Returned(FALSE)
    ELSE LET w == RetryRun(RetryEnter(NotifyRetryCfg), NotifyRetryCfg,
                           send_message(self, chan).outcome)
         IN  IF w.pc = "returned" THEN Returned(w.result) ELSE Raised(w.raised)

\* A whole call of the retried update_or_append_job when the API behaves as
\* api at every attempt: the rows it leaves and how the wrapper ended.
RECURSIVE UpsertRun(_, _, _, _)
UpsertRun(rows, w, job_data, api) ==
    IF w.pc # "loop" THEN [sheet |-> rows, w |-> w]
    ELSE LET body == update_or_append_job(rows, job_data, api)
         IN  UpsertRun(body.sheet,
                       RetryAttempt(w, SheetRetryCfg, body.outcome),
                       job_data, api)

UpsertCall(rows, job_data, api) ==
    LET end == UpsertRun(rows, RetryEnter(SheetRetryCfg), job_data, api)
    IN  [ sheet   |-> end.sheet,
          outcome |-> IF end.w.pc = "returned" THEN Returned(NoVal)
                                               ELSE Raised(end.w.raised) ]

\* int(os.getenv('MIN_SCORE_THRESHOLD', '50'))
DefaultMinScore == 50

\* The scores the matcher gives in the model: the sentinel's 0, and the scores
\* around the threshold.
RunScores == {0, DefaultMinScore - 1, DefaultMinScore, DefaultMinScore + 1}

\* How match_job ends for one job inside batch_match_jobs: it raises, or it
\* returns a result with a score.
NoMatch == 101
MatchOutcomes == RunScores \cup {NoMatch}

MaxRunJobs == 2

\* The i-th job search_jobs returns in the model.
RunPage(i) ==
    CASE i % 3 = 1 -> [url |-> "https://www.linkedin.com/jobs/view/1",     urn |-> ""]
      [] i % 3 = 2 -> [url |-> "https://www.linkedin.com/jobs/view/dev-2", urn |-> ""]
      [] OTHER     -> [url |-> "https://uk.linkedin.com/jobs/view/1",      urn |-> ""]

RunJob(i) ==
    [ id |-> i ] @@
    [ JobRecord(RunPage(i), CHOOSE c \in JobContents : c.score = 40)
        EXCEPT !.score = 0, !.coverLetter = "" ]

\* search_jobs returned n jobs.
FoundJobs(n) == [i \in 1..n |-> RunJob(i)]

\* `if not jobs`
NoJobs_Never(found) == FALSE

NoJobs(found) == found = <<>>

\* batch_match_jobs: the jobs whose match_job call returned, in order, each
\* with the score and coverLetter of its result.
RECURSIVE BatchMatch(_, _, _)
BatchMatch(found, outcomes, n) ==
    IF n = 0 THEN <<>>
    ELSE LET before == BatchMatch(found, outcomes, n - 1)
         IN  IF outcomes[n] = NoMatch
             THEN before
             ELSE Append(before, [found[n] EXCEPT !.score = outcomes[n],
                                                  !.coverLetter = "c1"])

\* `job.get('score', 0) >= self.config['min_score']`
ScoreQualifies_Strict(score, min_score) == score > min_score

ScoreQualifies(score, min_score) == score >= min_score

HighScoreJobs(matched, min_score) ==
    SelectSeq(matched, LAMBDA job : ScoreQualifies(job.score, min_score))

\* The order of step 6: the header check, the batch of upserts, the
\* notifications of the high-scoring jobs, the summary.
PersistOrder_NotifyFirst == <<"headers", "notify", "upsert", "summary">>

PersistOrder == <<"headers", "upsert", "notify", "summary">>

\* The list step 6 hands to batch_append_jobs: `matched_jobs`.
PersistedJobs_HighOnly(matched, high) == high

PersistedJobs(matched, high) == matched

\* How many calls a part of step 6 makes.
PartCalls(part, matched, high) ==
    CASE part = "upsert" -> Len(PersistedJobs(matched, high))
      [] part = "notify" -> Len(high)
      [] OTHER           -> 1

\* The part of step 6 that makes the next call after part number k is over.
RECURSIVE NextPart(_, _, _)
NextPart(k, matched, high) ==
    IF k >= Len(PersistOrder) THEN "done"
    ELSE IF PartCalls(PersistOrder[k + 1], matched, high) > 0
         THEN PersistOrder[k + 1]
         ELSE NextPart(k + 1, matched, high)

PartNumber(part) == CHOOSE k \in 1..Len(PersistOrder) : PersistOrder[k] = part

\* `raise` at the end of the except clause.
Reraise_Swallow(exc) == Returned(NoVal)

Reraise(exc) == Raised(exc)

\* One thing run did: a step it went through or a call it made, the index of
\* the job it was for (0 for none), whether the call returned normally (a
\* notifier call: returned True), and the counts in the summary.
RunEvent(ev, job, ok) == [ev |-> ev, job |-> job, ok |-> ok, counts |-> <<>>]

RunIdle ==
    /\ run_pc = "idle"
    /\ run_jobs = <<>>
    /\ run_matched = <<>>
    /\ run_high = <<>>
    /\ run_i = 0
    /\ run_exc = NoExc
    /\ run_result = Returned(NoVal)
    /\ run_log = <<>>

\* run() has been entered.
InitRunVars ==
    /\ run_pc = "extract"
    /\ run_jobs = <<>>
    /\ run_matched = <<>>
    /\ run_high = <<>>
    /\ run_i = 0
    /\ run_exc = NoExc
    /\ run_result = Returned(NoVal)
    /\ run_log = <<>>

\* The sheets a run starts on in the model: a new, empty one, and the header
\* with the row of an earlier job.
RunSheets == { rows \in BatchSheets : rows = <<>> \/ Len(rows) > 1 }

\* The components run uses: a notifier constructed from the configuration, and
\* the sheet the SheetsManager is connected to.
InitRunComponents ==
    /\ n_args \in { a \in NotifierArgs : a.bot_token /\ a.chat_id /\ a.bot = "ok" }
    /\ n_self = NotifierInit(n_args)
    /\ n_pc = "ready"
    /\ n_op = "none"
    /\ n_w = [RetryEnter(NotifyRetryCfg) EXCEPT !.pc = "idle"]
    /\ n_sent = <<>>
    /\ n_result = Returned(NoVal)
    /\ sheet \in RunSheets
    /\ sh_pc = "ready"
    /\ sh_job = NoJob
    /\ sh_w = [RetryEnter(SheetRetryCfg) EXCEPT !.pc = "idle"]
    /\ sh_before = sheet
    /\ sh_jobs = <<>>
    /\ sh_i = 0
    /\ sh_hist = <<>>

notRunVars == <<retryVars, rateVars, now, matchVars, searchVars, notifyVars,
                sh_pc, sh_job, sh_w, sh_before, sh_jobs, sh_i, sh_hist,
                 extraVars>>

\* Step 1: resume_parser.extract_text() returns the text or raises.
RunExtractResume ==
    /\ run_pc = "extract"
    /\ \E ok \in BOOLEAN :
          /\ run_log' = Append(run_log, RunEvent("ExtractResume", 0, ok))
          /\ run_pc' = IF ok THEN "filters" ELSE "failing"
          /\ run_exc' = IF ok THEN NoExc ELSE "ResumeError"
    /\ UNCHANGED <<run_jobs, run_matched, run_high, run_i, run_result, sheet,
                   notRunVars>>

\* Step 2: _load_filters() returns the filters or raises.
RunLoadFilters ==
    /\ run_pc = "filters"
    /\ \E ok \in BOOLEAN :
          /\ run_log' = Append(run_log, RunEvent("LoadFilters", 0, ok))
          /\ run_pc' = IF ok THEN "fetch" ELSE "failing"
          /\ run_exc' = IF ok THEN NoExc ELSE "FileNotFoundError"
    /\ UNCHANGED <<run_jobs, run_matched, run_high, run_i, run_result, sheet,
                   notRunVars>>

\* Step 3: search_jobs returns a list of jobs or raises.
RunFetchListings ==
    /\ run_pc = "fetch"
    /\ \/ \E n \in 0..MaxRunJobs :
            /\ run_jobs' = FoundJobs(n)
            /\ run_log' = Append(run_log, RunEvent("FetchListings", 0, TRUE))
            /\ run_pc' = IF NoJobs(FoundJobs(n)) THEN "nojobs" ELSE "match"
            /\ run_exc' = NoExc
       \/ /\ run_log' = Append(run_log, RunEvent("FetchListings", 0, FALSE))
          /\ run_pc' = "failing"
          /\ run_exc' = "RequestException"
          /\ UNCHANGED run_jobs
    /\ UNCHANGED <<run_matched, run_high, run_i, run_result, sheet, notRunVars>>

\* `if not jobs`: the "No jobs found" message is sent and run returns.
RunNoJobs ==
    /\ run_pc = "nojobs"
    /\ \E chan \in ChannelBehaviours :
          LET sent == NotifyCall("send_message", n_self, chan)
          IN  /\ run_log' = Append(run_log,
                     RunEvent("send_message", 0,
                              sent.kind = "return" /\ sent.val = TRUE))
              /\ IF sent.kind = "return"
                 THEN /\ run_pc' = "done"
                      /\ run_exc' = NoExc
                 ELSE /\ run_pc' = "failing"
                      /\ run_exc' = sent.exc
    /\ UNCHANGED <<run_jobs, run_matched, run_high, run_i, run_result, sheet,
                   notRunVars>>

\* Step 4: batch_match_jobs, which does not raise.
RunMatchAll ==
    /\ run_pc = "match"
    /\ \E outcomes \in [1..Len(run_jobs) -> MatchOutcomes] :
          run_matched' = BatchMatch(run_jobs, outcomes, Len(run_jobs))
    /\ run_log' = Append(run_log, RunEvent("MatchAll", 0, TRUE))
    /\ run_pc' = "threshold"
    /\ UNCHANGED <<run_jobs, run_high, run_i, run_exc, run_result, sheet,
                   notRunVars>>

\* Step 5: the list comprehension that keeps the high-scoring jobs.
RunThresholdFilter ==
    /\ run_pc = "threshold"
    /\ run_high' = HighScoreJobs(run_matched, DefaultMinScore)
    /\ run_log' = Append(run_log, RunEvent("ThresholdFilter", 0, TRUE))
    /\ run_pc' = PersistOrder[1]
    /\ run_i' = 1
    /\ UNCHANGED <<run_jobs, run_matched, run_exc, run_result, sheet, notRunVars>>

\* Step 6, ensure_headers(): it returns or raises.
RunEnsureHeaders ==
    /\ run_pc = "headers"
    /\ \E api \in SheetApi :
          LET body == ensure_headers(sheet, api)
              ok   == body.outcome.kind = "return"
          IN  /\ sheet' = body.sheet
              /\ run_log' = Append(run_log, RunEvent("ensure_headers", 0, ok))
              /\ run_pc' = IF ok
                           THEN NextPart(PartNumber("headers"), run_matched, run_high)
                           ELSE "failing"
              /\ run_exc' = IF ok THEN NoExc ELSE body.outcome.exc
    /\ run_i' = 1
    /\ UNCHANGED <<run_jobs, run_matched, run_high, run_result, notRunVars>>

\* Step 6, one iteration of the loop of batch_append_jobs(matched_jobs): the
\* retried update_or_append_job call for matched_jobs[i], whose failure the
\* loop logs and passes over.
RunUpsert ==
    /\ run_pc = "upsert"
    /\ \E api \in {ReadFails, RowWidth} :
          LET batch == PersistedJobs(run_matched, run_high)
              call  == UpsertCall(sheet, batch[run_i], api)
              ok    == call.outcome.kind = "return"
              stop  == ~ok /\ BatchOnFailure = "raise"
          IN  /\ sheet' = call.sheet
              /\ run_log' = Append(run_log,
                     RunEvent("update_or_append_job", batch[run_i].id, ok))
              /\ IF stop
                 THEN /\ run_pc' = "failing"
                      /\ run_exc' = call.outcome.exc
                      /\ UNCHANGED run_i
                 ELSE /\ run_exc' = NoExc
                      /\ IF run_i < Len(batch)
                         THEN /\ run_i' = run_i + 1
                              /\ UNCHANGED run_pc
                         ELSE /\ run_i' = 1
                              /\ run_pc' = NextPart(PartNumber("upsert"),
                                                    run_matched, run_high)
    /\ UNCHANGED <<run_jobs, run_matched, run_high, run_result, notRunVars>>

\* Step 6, one iteration of `for job in high_score_jobs`:
\* send_job_notification(job), then time.sleep(1).
RunNotifyJob ==
    /\ run_pc = "notify"
    /\ \E chan \in ChannelBehaviours :
          LET sent == NotifyCall("send_job_notification", n_self, chan)
          IN  /\ run_log' = Append(run_log,
                     RunEvent("send_job_notification", run_high[run_i].id,
                              sent.kind = "return" /\ sent.val = TRUE))
              /\ IF sent.kind = "raise"
                 THEN /\ run_pc' = "failing"
                      /\ run_exc' = sent.exc
                      /\ UNCHANGED run_i
                 ELSE /\ run_exc' = NoExc
                      /\ IF run_i < Len(run_high)
                         THEN /\ run_i' = run_i + 1
                              /\ UNCHANGED run_pc
                         ELSE /\ run_i' = 1
                              /\ run_pc' = NextPart(PartNumber("notify"),
                                                    run_matched, run_high)
    /\ UNCHANGED <<run_jobs, run_matched, run_high, run_result, sheet, notRunVars>>

\* Step 6, send_batch_summary(len(jobs), len(matched_jobs),
\* len(high_score_jobs)); run then returns.
RunSummary ==
    /\ run_pc = "summary"
    /\ \E chan \in ChannelBehaviours :
          LET sent == NotifyCall("send_batch_summary", n_self, chan)
              ev   == [ RunEvent("send_batch_summary", 0,
                                 sent.kind = "return" /\ sent.val = TRUE)
                          EXCEPT !.counts = << Len(run_jobs), Len(run_matched),
                                               Len(run_high) >> ]
          IN  /\ run_log' = Append(run_log, ev)
              /\ IF sent.kind = "raise"
                 THEN /\ run_pc' = "failing"
                      /\ run_exc' = sent.exc
                 ELSE /\ run_exc' = NoExc
                      /\ run_pc' = NextPart(PartNumber("summary"),
                                            run_matched, run_high)
    /\ UNCHANGED <<run_jobs, run_matched, run_high, run_i, run_result, sheet,
                   notRunVars>>

\* The except clause: send_error_notification(str(e)), then `raise`.  An
\* exception out of send_error_notification would leave the clause in place of e.
RunFail ==
    /\ run_pc = "failing"
    /\ \E chan \in ChannelBehaviours :
          LET sent == NotifyCall("send_error_notification", n_self, chan)
              out  == IF sent.kind = "raise" THEN sent ELSE Reraise(run_exc)
          IN  /\ run_log' = Append(run_log,
                     RunEvent("send_error_notification", 0,
                              sent.kind = "return" /\ sent.val = TRUE))
              /\ run_result' = out
              /\ run_pc' = IF out.kind = "raise" THEN "raised" ELSE "done"
    /\ UNCHANGED <<run_jobs, run_matched, run_high, run_i, run_exc, sheet,
                   notRunVars>>

-----------------------------------------------------------------------------
(* LinkedInScraper.build_search_url (linkedin_scraper.py) *)

\* A comma-separated filter value is the sequence of the pieces split(",")
\* cuts it into: <<"">> is the empty string, and <<>> stands for a key the
\* filters do not have.  The URL is the sequence of its query parameters.

MaxValues == 2

\* The pieces of the model: names of the three tables, two of them with a
\* blank before or after, a name no table has, and the empty piece.
FacetTokens ==
    { "Entry level", "Mid-Senior level", "Internship", " Remote", "Hybrid ",
      "Contract", "Senior", "" }

\* str.strip()
Strip(piece) ==
    CASE piece = " Remote" -> "Remote"
      [] piece = "Hybrid " -> "Hybrid"
      [] OTHER             -> piece

experience_map ==
    ("Internship" :> "1") @@ ("Entry level" :> "2") @@ ("Associate" :> "3") @@
    ("Mid-Senior level" :> "4") @@ ("Director" :> "5") @@ ("Executive" :> "6")

remote_map == ("On-Site" :> "1") @@ ("Remote" :> "2") @@ ("Hybrid" :> "3")

job_type_map ==
    ("Full-time" :> "F") @@ ("Part-time" :> "P") @@ ("Contract" :> "C") @@
    ("Temporary" :> "T") @@ ("Other" :> "O") @@ ("Internship" :> "I")

\* `filters.get(key)` as a condition: the key is there and its string is not
\* empty.
Truthy(value) == value # <<>> /\ value # <<"">>

\* `if level in experience_map`
InTable_Always(map, v) == TRUE

InTable(map, v) == v \in DOMAIN map

\* dict.get(v): None for a key the table does not have
Get(map, v) == IF v \in DOMAIN map THEN map[v] ELSE "None"

\* level_codes, remote_codes, job_codes
FacetCodes(map, value) ==
    LET stripped == [k \in 1..Len(value) |-> Strip(value[k])]
        kept     == SelectSeq(stripped, LAMBDA v : InTable(map, v))
    IN  [k \in 1..Len(kept) |-> Get(map, kept[k])]

\* ','.join(codes)
RECURSIVE Join(_)
Join(codes) ==
    IF codes = <<>> THEN ""
    ELSE IF Len(codes) = 1 THEN codes[1]
    ELSE codes[1] \o "," \o Join(Tail(codes))

Param(name, value) == [name |-> name, value |-> value]

\* The part of the URL one of the three facets adds.
FacetParam(name, map, value) ==
    IF Truthy(value) /\ FacetCodes(map, value) # <<>>
    THEN << Param(name, Join(FacetCodes(map, value))) >>
    ELSE <<>>

build_search_url(filters) ==
    << Param("f_TPR", "r86400") >>
    \o (IF filters.keyword # ""
        THEN << Param("keywords", filters.keyword) >> ELSE <<>>)
    \o (IF filters.location # ""
        THEN << Param("location", filters.location) >> ELSE <<>>)
    \o FacetParam("f_E", experience_map, filters.experience_level)
    \o FacetParam("f_WT", remote_map, filters.remote)
    \o FacetParam("f_JT", job_type_map, filters.job_type)
    \o (IF filters.easy_apply THEN << Param("f_EA", "true") >> ELSE <<>>)

\* The values of a facet in the model: every list of up to MaxValues pieces.
FilterValues ==
    {<<>>} \cup UNION { [1..n -> FacetTokens] : n \in 1..MaxValues }

\* A facet left out, or set to a name two of the tables have.
PlainValues == { <<>>, <<"Internship">> }

\* The filters of the model: one of the three facets takes every value, the
\* other two a plain one.
FacetFilters ==
    { [experience_level |-> e, remote |-> r, job_type |-> j] :
         e \in FilterValues, r \in PlainValues, j \in PlainValues }
    \cup { [experience_level |-> e, remote |-> r, job_type |-> j] :
         e \in PlainValues, r \in FilterValues, j \in PlainValues }
    \cup { [experience_level |-> e, remote |-> r, job_type |-> j] :
         e \in PlainValues, r \in PlainValues, j \in FilterValues }

UrlFilters ==
    { f @@ [keyword |-> k, location |-> l, easy_apply |-> a] :
         f \in FacetFilters, k \in {"", "python"}, l \in {"", "Berlin"},
         a \in BOOLEAN }

NoFilters ==
    [experience_level |-> <<>>, remote |-> <<>>, job_type |-> <<>>,
     keyword |-> "", location |-> "", easy_apply |-> FALSE]

UrlIdle ==
    /\ u_pc = "idle"
    /\ u_filters = NoFilters
    /\ u_url = <<>>

\* build_search_url(filters) has been entered.
InitUrlVars ==
    /\ u_pc = "build"
    /\ u_filters \in UrlFilters
    /\ u_url = <<>>

notUrlVars == <<retryVars, rateVars, now, matchVars, searchVars, notifyVars,
                sheetsVars, runVars, identVars, parseVars, schedVars>>

BuildSearchUrl ==
    /\ u_pc = "build"
    /\ u_url' = build_search_url(u_filters)
    /\ u_pc' = "done"
    /\ UNCHANGED <<u_filters, notUrlVars>>

-----------------------------------------------------------------------------
(* The identity fetch_job_details gives a job (linkedin_scraper.py) *)

\* The job URLs fetch_job_details is called with in the model: those of Urls,
\* the posting with id 2, a URL that is no posting's, and the empty URL.
IdentityUrls ==
    Urls \cup { "https://www.linkedin.com/jobs/view/2",
                "https://www.linkedin.com/jobs/search/",
                "" }

\* The data-semaphore-content-urn attribute of the page's semaphore anchor; ""
\* when the page has no such anchor or the anchor no such attribute.
UrnAttrs ==
    { "", "urn:li:jobPosting:1", "urn:li:jobPosting:2", "urn:li:jobPosting:",
      "2" }

\* job_id.split(':')[-1]
LastSegment(attr) ==
    CASE attr = "urn:li:jobPosting:1" -> "1"
      [] attr = "urn:li:jobPosting:2" -> "2"
      [] attr = "urn:li:jobPosting:"  -> ""
      [] OTHER                        -> attr

IdentIdle ==
    /\ id_pc = "idle"
    /\ id_url = ""
    /\ id_attr = ""
    /\ id_content = CHOOSE c \in JobContents : c.score = 40
    /\ id_job = NoJob

\* fetch_job_details(job_url) has received the page and is about to parse it.
InitIdentVars ==
    /\ id_pc = "parse"
    /\ id_url \in IdentityUrls
    /\ id_attr \in UrnAttrs
    /\ id_content \in JobContents
    /\ id_job = NoJob

notIdentVars == <<retryVars, rateVars, now, matchVars, searchVars, notifyVars,
                  sheetsVars, runVars, urlVars, parseVars, schedVars>>

\* The parsing of the page into job_data, which the matcher has not scored.
ParseJobDetails ==
    /\ id_pc = "parse"
    /\ id_job' = [ JobRecord([url |-> id_url, urn |-> LastSegment(id_attr)],
                             id_content)
                     EXCEPT !.score = 0, !.coverLetter = "" ]
    /\ id_pc' = "done"
    /\ UNCHANGED <<id_url, id_attr, id_content, notIdentVars>>

-----------------------------------------------------------------------------
(* ResumeParser.extract_text (resume_parser.py) *)

\* @retry_on_failure(max_retries=2) on extract_text_pdfplumber and on
\* extract_text_pypdf2; delay and backoff are the decorator's defaults.
ParseRetryCfg == [max_retries |-> 2, delay |-> 1, backoff |-> 2]

\* `len(text) > 100`
MinUsableLen == 100

\* A text is modelled by its length.  The lengths of the model: the empty
\* text, and the lengths at and above the sanity check.
TextLens == {0, MinUsableLen, MinUsableLen + 1}

\* `if text and len(text) > 100`
PassesSanityCheck(len) == len # 0 /\ len > MinUsableLen

\* The `method` argument; "docx" stands for every string that names no method.
ExtractMethods == {"auto", "pypdf2", "pdfplumber", "docx"}

\* What one call of a strategy does: it returns a text, or it raises because
\* the file cannot be opened or cannot be read as a PDF.
StrategyOutcomes ==
    { Returned(len) : len \in TextLens } \cup { Raised("OSError"), Raised("PdfError") }

\* The strategy extract_text calls first.
FirstStrategy(method) ==
    CASE method \in {"auto", "pdfplumber"} -> "pdfplumber"
      [] method = "pypdf2"                 -> "pypdf2"
      [] OTHER                             -> "invalid"

\* How a strategy's retried call ended, for p_log.
StrategyEvent(strategy, w) ==
    [ strategy |-> strategy,
      outcome  |-> IF w.pc = "returned" THEN Returned(w.result)
                                        ELSE Raised(w.raised) ]

ParseIdle ==
    /\ p_method = "auto"
    /\ p_pc = "idle"
    /\ p_w = [RetryEnter(ParseRetryCfg) EXCEPT !.pc = "idle"]
    /\ p_result = Returned(0)
    /\ p_log = <<>>

\* extract_text(method) has been entered.
InitParseVars ==
    /\ p_method \in ExtractMethods
    /\ p_pc = FirstStrategy(p_method)
    /\ p_w = RetryEnter(ParseRetryCfg)
    /\ p_result = Returned(0)
    /\ p_log = <<>>

notParseVars == <<retryVars, rateVars, now, matchVars, searchVars, notifyVars,
                  sheetsVars, runVars, urlVars, identVars, schedVars>>

\* One attempt of the retry wrapper at extract_text_pdfplumber and, when the
\* wrapper is through, what extract_text does with its result: under "auto" a
\* text that passes the sanity check is returned and anything else, an
\* exception included, leads to PyPDF2; under "pdfplumber" the text is
\* returned or the exception propagates.
PdfplumberAttempt ==
    /\ p_pc = "pdfplumber"
    /\ \E outcome \in StrategyOutcomes :
          LET w    == RetryAttempt(p_w, ParseRetryCfg, outcome)
              good == /\ w.pc = "returned"
                      /\ p_method = "auto" => PassesSanityCheck(w.result)
          IN  IF w.pc = "loop"
              THEN /\ p_w' = w
                   /\ UNCHANGED <<p_pc, p_result, p_log>>
              ELSE /\ p_log' = Append(p_log, StrategyEvent("pdfplumber", w))
                   /\ IF good
                      THEN /\ p_pc' = "done"
                           /\ p_result' = Returned(w.result)
                           /\ p_w' = w
                      ELSE IF p_method = "auto"
                      THEN /\ p_pc' = "pypdf2"
                           /\ p_w' = RetryEnter(ParseRetryCfg)
                           /\ UNCHANGED p_result
                      ELSE /\ p_pc' = "raised"
                           /\ p_result' = Raised(w.raised)
                           /\ p_w' = w
    /\ UNCHANGED <<p_method, notParseVars>>

\* One attempt of the retry wrapper at extract_text_pypdf2 and, when the
\* wrapper is through, the return of its text or the `raise`.
Pypdf2Attempt ==
    /\ p_pc = "pypdf2"
    /\ \E outcome \in StrategyOutcomes :
          LET w == RetryAttempt(p_w, ParseRetryCfg, outcome)
          IN  /\ p_w' = w
              /\ IF w.pc = "loop"
                 THEN UNCHANGED <<p_pc, p_result, p_log>>
                 ELSE /\ p_log' = Append(p_log, StrategyEvent("pypdf2", w))
                      /\ p_pc' = IF w.pc = "returned" THEN "done" ELSE "raised"
                      /\ p_result' = IF w.pc = "returned"
                                     THEN Returned(w.result)
                                     ELSE Raised(w.raised)
    /\ UNCHANGED <<p_method, notParseVars>>

\* `raise ValueError(f"Invalid extraction method: {method}")`
RejectMethod ==
    /\ p_pc = "invalid"
    /\ p_pc' = "raised"
    /\ p_result' = Raised("ValueError")
    /\ UNCHANGED <<p_method, p_w, p_log, notParseVars>>

-----------------------------------------------------------------------------
(* main and run_scheduled (main.py 211-282) *)

\* Time in scheduled mode is counted in passes of the waiting loop, which are
\* a minute apart; a day has DayPasses of them in the model.
DayPasses == 2
MaxPasses == 14

\* The exit status of the process; NotExited while it runs.
NotExited == -1

\* How a run_once() call made by schedule.run_pending() ends: run returns, or
\* the constructor or run raises, or the user interrupts it.
RunExceptions ==
    {"ResumeError", "FileNotFoundError", "RequestException", "APIError"}

RunOnceOutcomes ==
    {Returned(NoVal), Raised("KeyboardInterrupt")}
        \cup { Reraise(exc) : exc \in RunExceptions }

\* `except KeyboardInterrupt` around the waiting loop: the one exception
\* run_scheduled catches there.
CaughtByLoop_Any(exc) == TRUE

CaughtByLoop(exc) == exc = "KeyboardInterrupt"

\* The status main exits with when an exception leaves the waiting loop: an
\* exception the loop catches ends run_scheduled and main normally, any other
\* reaches `except Exception` of main and sys.exit(1).
ExitStatusOf(exc) == IF CaughtByLoop(exc) THEN 0 ELSE 1

SchedIdle ==
    /\ sc_pc = "idle"
    /\ sc_valid = TRUE
    /\ sc_pass = 0
    /\ sc_next_run = 0
    /\ sc_runs = <<>>
    /\ sc_status = NotExited

\* main has called run_scheduled(); SCHEDULE_TIME parses or not, and the first
\* run is due within a day.
InitSchedVars ==
    /\ sc_pc = "start"
    /\ sc_valid \in BOOLEAN
    /\ sc_pass = 0
    /\ sc_next_run \in 1..DayPasses
    /\ sc_runs = <<>>
    /\ sc_status = NotExited

notSchedVars == <<retryVars, rateVars, now, matchVars, searchVars, notifyVars,
                  sheetsVars, runVars, urlVars, identVars, parseVars>>

\* parse_time_string: sys.exit(1) on a ValueError, else the job is scheduled
\* and the waiting loop entered.
SchedStart ==
    /\ sc_pc = "start"
    /\ IF sc_valid
       THEN /\ sc_pc' = "waiting"
            /\ UNCHANGED sc_status
       ELSE /\ sc_pc' = "exited"
            /\ sc_status' = 1
    /\ UNCHANGED <<sc_valid, sc_pass, sc_next_run, sc_runs, notSchedVars>>

\* A pass of the loop with no job due: run_pending() does nothing, then
\* time.sleep(60).
SchedWait ==
    /\ sc_pc = "waiting"
    /\ sc_pass < sc_next_run
    /\ sc_pass < MaxPasses
    /\ sc_pass' = sc_pass + 1
    /\ UNCHANGED <<sc_pc, sc_valid, sc_next_run, sc_runs, sc_status, notSchedVars>>

\* A pass of the loop with the job due: run_pending() calls run_once().  When
\* it returns the job is due again a day later and the loop sleeps; when it
\* raises, the exception leaves run_pending and the loop, and the process
\* exits.
SchedRun ==
    /\ sc_pc = "waiting"
    /\ sc_pass >= sc_next_run
    /\ sc_pass < MaxPasses
    /\ \E outcome \in RunOnceOutcomes :
          /\ sc_runs' = Append(sc_runs, outcome)
          /\ IF outcome.kind = "return"
             THEN /\ sc_next_run' = sc_next_run + DayPasses
                  /\ sc_pass' = sc_pass + 1
                  /\ UNCHANGED <<sc_pc, sc_status>>
             ELSE /\ sc_pc' = "exited"
                  /\ sc_status' = ExitStatusOf(outcome.exc)
                  /\ UNCHANGED <<sc_next_run, sc_pass>>
    /\ UNCHANGED <<sc_valid, notSchedVars>>

\* Ctrl+C while the loop waits: "Scheduler stopped by user", and main ends.
SchedInterrupt ==
    /\ sc_pc = "waiting"
    /\ sc_pc' = "exited"
    /\ sc_status' = ExitStatusOf("KeyboardInterrupt")
    /\ UNCHANGED <<sc_valid, sc_pass, sc_next_run, sc_runs, notSchedVars>>

ExtrasIdle == UrlIdle /\ IdentIdle /\ ParseIdle /\ SchedIdle

-----------------------------------------------------------------------------
(* Specifications *)

OthersIdle == NotifyIdle /\ SheetsIdle /\ RunIdle /\ ExtrasIdle

InitRetry == InitRetryVars /\ RateIdle /\ InitClock /\ MatchIdle /\ SearchIdle
             /\ OthersIdle
NextRetry == RetryCall \/ RetryAgain
SpecRetry == InitRetry /\ [][NextRetry]_vars

InitRate == InitRateVars /\ InitClock /\ RetryIdle /\ MatchIdle /\ SearchIdle
            /\ OthersIdle
NextRate == RateLimitedCall \/ Tick
SpecRate == InitRate /\ [][NextRate]_vars

InitMatch == InitMatchVars /\ RetryIdle /\ RateIdle /\ InitClock /\ SearchIdle
             /\ OthersIdle
NextMatch == MatchAttempt \/ BatchCollect
SpecMatch == InitMatch /\ [][NextMatch]_vars

InitSearch == InitSearchVars /\ InitClock /\ RetryIdle /\ RateIdle /\ MatchIdle
              /\ OthersIdle
NextSearch == SearchFetchAttempt \/ DetailFetchAttempt
SpecSearch == InitSearch /\ [][NextSearch]_vars

CoreIdle == RetryIdle /\ RateIdle /\ InitClock /\ MatchIdle /\ SearchIdle

InitNotify == InitNotifyVars /\ CoreIdle /\ SheetsIdle /\ RunIdle /\ ExtrasIdle
NextNotify == NotifyEnter \/ SendAttempt
SpecNotify == InitNotify /\ [][NextNotify]_vars

InitSheets == InitSheetsVars /\ CoreIdle /\ NotifyIdle /\ RunIdle /\ ExtrasIdle
NextSheets == EnsureHeaders \/ UpsertEnter \/ UpsertAttempt
SpecSheets == InitSheets /\ [][NextSheets]_vars

InitBatch == InitBatchVars /\ CoreIdle /\ NotifyIdle /\ RunIdle /\ ExtrasIdle
NextBatch == BatchUpsertAttempt
SpecBatch == InitBatch /\ [][NextBatch]_vars

InitRun == InitRunVars /\ InitRunComponents /\ CoreIdle /\ ExtrasIdle
NextRun ==
    \/ RunExtractResume
    \/ RunLoadFilters
    \/ RunFetchListings
    \/ RunNoJobs
    \/ RunMatchAll
    \/ RunThresholdFilter
    \/ RunEnsureHeaders
    \/ RunUpsert
    \/ RunNotifyJob
    \/ RunSummary
    \/ RunFail
SpecRun == InitRun /\ [][NextRun]_vars

\* The components of the pipeline that are at rest in the specifications of
\* build_search_url, of a job's identity and of extract_text.
PipelineIdle == CoreIdle /\ NotifyIdle /\ SheetsIdle /\ RunIdle

InitUrl == InitUrlVars /\ PipelineIdle /\ IdentIdle /\ ParseIdle /\ SchedIdle

InitIdent == InitIdentVars /\ PipelineIdle /\ UrlIdle /\ ParseIdle /\ SchedIdle
NextIdent == ParseJobDetails
SpecIdent == InitIdent /\ [][NextIdent]_vars

InitParse == InitParseVars /\ PipelineIdle /\ UrlIdle /\ IdentIdle /\ SchedIdle
NextParse == PdfplumberAttempt \/ Pypdf2Attempt \/ RejectMethod
SpecParse == InitParse /\ [][NextParse]_vars

InitSched == InitSchedVars /\ PipelineIdle /\ UrlIdle /\ IdentIdle /\ ParseIdle
NextSched == SchedStart \/ SchedWait \/ SchedRun \/ SchedInterrupt
SpecSched == InitSched /\ [][NextSched]_vars
NextUrl == BuildSearchUrl
SpecUrl == InitUrl /\ [][NextUrl]_vars

-----------------------------------------------------------------------------
(* Claims about retry_on_failure, checked under SpecRetry *)

RetryCalls  == CallsOf(r_w.log)
RetrySleeps == SleepsOf(r_w.log)

\* C1: when the wrapped operation fails on every attempt it is invoked exactly
\* max_retries + 1 times and the failure of the last attempt is re-raised;
\* when an attempt succeeds its result is returned and the operation is not
\* invoked again (the successful call is the last thing the wrapper did, and
\* every call before it failed).
C1_RetryExhaustsThenReraises ==
    /\ r_w.pc = "raised" =>
          /\ Len(RetryCalls) = r_cfg.max_retries + 1
          /\ \A k \in 1..Len(RetryCalls) : RetryCalls[k].outcome.kind = "raise"
          /\ r_w.raised = RetryCalls[Len(RetryCalls)].outcome.exc
    /\ r_w.pc = "returned" =>
          /\ Len(r_w.log) > 0
          /\ r_w.log[Len(r_w.log)] = CallEvent(Returned(r_w.result))
          /\ \A k \in 1..(Len(RetryCalls) - 1) : RetryCalls[k].outcome.kind = "raise"
          /\ Len(RetryCalls) <= r_cfg.max_retries + 1
    /\ r_w.pc = "loop" =>
          /\ \A k \in 1..Len(RetryCalls) : RetryCalls[k].outcome.kind = "raise"
          /\ Len(RetryCalls) <= r_cfg.max_retries

C1_Witness ==
    /\ r_w.pc = "raised"
    /\ r_cfg.max_retries = 3
    /\ RetryCalls[1].outcome.exc = "E1"
    /\ r_w.raised = "E2"

\* C2: the sleep after the k-th failed attempt (k = 1..max_retries) lasts
\* delay * backoff^(k-1); a sleep follows a failed attempt directly and only
\* when a further attempt remains: none comes first, none follows the final
\* failed attempt.
C2_BackoffSchedule ==
    /\ \A k \in 1..Len(RetrySleeps) :
          RetrySleeps[k].secs = r_cfg.delay * Pow(r_cfg.backoff, k - 1)
    /\ \A i \in 1..Len(r_w.log) :
          r_w.log[i].ev = "sleep" =>
             /\ i > 1
             /\ r_w.log[i - 1].ev = "call"
             /\ r_w.log[i - 1].outcome.kind = "raise"
    /\ Len(RetrySleeps) =
          IF Len(FailedCallsOf(r_w.log)) <= r_cfg.max_retries
          THEN Len(FailedCallsOf(r_w.log)) ELSE r_cfg.max_retries
    /\ r_w.pc \in {"raised", "returned"} => r_w.log[Len(r_w.log)].ev = "call"

C2_Witness ==
    /\ r_w.pc = "raised"
    /\ r_cfg.delay = 2 /\ r_cfg.backoff = 3
    /\ Len(RetrySleeps) = 3
    /\ RetrySleeps[3].secs = 18

-----------------------------------------------------------------------------
(* Claims about rate_limit, checked under SpecRate *)

\* C3: for every pair of consecutive invocations of the wrapped operation,
\* whether the earlier one returned or raised, the later one starts at least
\* period / calls after the earlier one.
C3_MinIntervalBetweenInvocations ==
    \A k \in 2..Len(rl_log) :
        rl_log[k].start - rl_log[k - 1].start >= min_interval(rl_cfg)

-----------------------------------------------------------------------------
(* Claims about AIMatcher, checked under SpecMatch *)

\* The match_job call for job m_i is running, or has just ended.
InMatchJob   == m_pc \in {"matching", "collect"}
MatchJobDone == m_pc = "collect"
CurDesc      == m_jobs[m_i].description

AllApi(P(_)) == \A k \in 1..Len(m_api) : P(m_api[k])
IsApiError(a)    == a.api = "error"
IsFullObject(a)  == a.api = "content" /\ a.json = "object" /\ a.has_score /\ a.has_cover
IsUnparsedOrLacking(a) ==
    /\ a.api = "content"
    /\ \/ a.json = "invalid"
       \/ a.json \in {"scalar", "object"} /\ (~a.has_score \/ ~a.has_cover)

\* C4: for every job description that is missing or shorter than 50
\* characters, match_job returns the sentinel {score 0, empty cover letter}
\* and sends no request to the external model.
C4_ShortDescriptionSkipsModel ==
    (InMatchJob /\ (CurDesc = NoDesc \/ CurDesc < 50)) =>
        /\ m_api = <<>>
        /\ MatchJobDone =>
              /\ m_w.pc = "returned"
              /\ m_w.result = [score |-> 0, coverLetter |-> ""]
              /\ Len(CallsOf(m_w.log)) = 1

C4_Witness ==
    /\ MatchJobDone
    /\ CurDesc = 49
    /\ m_w.pc = "returned"
    /\ m_api = <<>>

\* C5: for all model responses that carry both fields, whatever JSON value
\* the score field holds, match_job returns a result whose score is an
\* integer in [0, 100].
C5_ScoreAlwaysClamped ==
    (MatchJobDone /\ Len(m_api) > 0 /\ AllApi(IsFullObject)) =>
        /\ m_w.pc = "returned"
        /\ m_w.result.score \in 0..100

\* C6: when the model's response cannot be parsed as JSON, or lacks the score
\* or the coverLetter field, match_job returns the sentinel and the model has
\* been called exactly once for that job.
C6_ParseFailureNotRetried ==
    (InMatchJob /\ Len(m_api) > 0 /\ IsUnparsedOrLacking(m_api[1])) =>
        /\ Len(m_api) = 1
        /\ MatchJobDone
        /\ m_w.pc = "returned"
        /\ m_w.result = [score |-> 0, coverLetter |-> ""]

\* C7: when the request to the model raises an API error on every attempt,
\* match_job makes 4 attempts, sleeping 2, 4 and 8 seconds between them, and
\* only then raises the error; when a later attempt gets a well-formed answer
\* its result is returned.
C7_ApiErrorRetriedFourTimes ==
    /\ (InMatchJob /\ Len(m_api) > 0 /\ AllApi(IsApiError)) =>
          /\ Len(m_api) <= 4
          /\ Len(m_api) < 4 => (m_pc = "matching" /\ m_w.pc = "loop")
          /\ Len(m_api) = 4 =>
                /\ MatchJobDone
                /\ m_w.pc = "raised"
                /\ m_w.raised = "APIError"
                /\ SleepsOf(m_w.log) = <<SleepEvent(2), SleepEvent(4), SleepEvent(8)>>
    /\ (MatchJobDone /\ Len(m_api) > 1
          /\ (\A k \in 1..(Len(m_api) - 1) : IsApiError(m_api[k]))
          /\ IsFullObject(m_api[Len(m_api)])
          /\ m_api[Len(m_api)].score = [t |-> "int", n |-> 85]) =>
          /\ m_w.pc = "returned"
          /\ m_w.result = [score |-> 85, coverLetter |-> m_api[Len(m_api)].coverLetter]

C7_Witness ==
    /\ MatchJobDone
    /\ Len(m_api) = 4
    /\ AllApi(IsApiError)
    /\ m_w.pc = "raised"

\* The jobs batch_match_jobs has to return once the first n jobs are done:
\* those whose match_job call did not raise, in order, with their own result.
RECURSIVE ExpectedMatched(_)
ExpectedMatched(n) ==
    IF n = 0 THEN <<>>
    ELSE IF m_hist[n].kind = "raise" THEN ExpectedMatched(n - 1)
    ELSE Append(ExpectedMatched(n - 1),
                [id          |-> n,
                 description |-> m_jobs[n].description,
                 score       |-> m_hist[n].val.score,
                 coverLetter |-> m_hist[n].val.coverLetter])

\* C8: for any sequence of N jobs in which matching raises for some of them,
\* batch_match_jobs does not raise: it goes through all N jobs and returns
\* exactly the jobs whose matching did not raise, in their original order,
\* each with its own score and cover letter.
C8_BatchContainment ==
    /\ matched_jobs = ExpectedMatched(Len(m_hist))
    /\ m_pc = "done" => Len(m_hist) = Len(m_jobs)
    /\ m_pc \in {"matching", "collect"} => Len(m_hist) = m_i - 1

C8_Witness ==
    /\ m_pc = "done"
    /\ Len(m_jobs) = 2
    /\ m_hist[1].kind = "raise"
    /\ m_hist[2].kind = "return"
    /\ m_hist[2].val.score = 0
    /\ Len(matched_jobs) = 1
    /\ matched_jobs[1].id = 2

-----------------------------------------------------------------------------
(* Claims about LinkedInScraper.search_jobs, checked under SpecSearch *)

\* What the last GET of link i's detail page did.
LastPage(i) == s_http[i][Len(s_http[i])]

\* The links among the first n of job_links whose details were obtained.
RECURSIVE ObtainedUpTo(_)
ObtainedUpTo(n) ==
    IF n = 0 THEN <<>>
    ELSE IF LastPage(n) = "ok"
         THEN Append(ObtainedUpTo(n - 1), [found |-> TRUE, url |-> job_links[n]])
         ELSE ObtainedUpTo(n - 1)

\* The first max_jobs links of the search page.
FirstLinks ==
    [i \in 1..(IF Len(s_links) < s_max_jobs THEN Len(s_links) ELSE s_max_jobs)
        |-> s_links[i]]

\* The links the loop of search_jobs is done with.
LinksDone == IF s_pc = "done" THEN Len(job_links) ELSE s_i - 1

\* C9: a failure while fetching or parsing one job's detail page never makes
\* search_jobs raise (it raises only when the search page could not be
\* fetched); the job is left out and every other link of the first max_jobs
\* is still processed, so the result is the order-preserving subsequence of
\* the first max_jobs links whose details were obtained.
C9_DetailFailureContained ==
    /\ s_pc = "raised" =>
          /\ s_links = <<>>
          /\ \A k \in 1..Len(CallsOf(s_w.log)) :
                CallsOf(s_w.log)[k].outcome.exc = "RequestException"
    /\ s_pc \in {"details", "done"} =>
          /\ job_links = FirstLinks
          /\ jobs = ObtainedUpTo(LinksDone)
          /\ \A i \in 1..LinksDone : Len(s_http[i]) >= 1
    /\ s_pc = "done" => LinksDone = Len(FirstLinks)

C9_Witness ==
    /\ s_pc = "done"
    /\ Len(s_links) = 3
    /\ s_max_jobs = 2
    /\ LastPage(1) = "parse_error"
    /\ LastPage(2) = "ok"
    /\ jobs = <<[found |-> TRUE, url |-> 2]>>

\* C10: when the GET of a job's detail page fails with a network error, the
\* fetch is attempted again, up to the 4 attempts of the retry wrapper, before
\* the job is given up and left out of the result.
C10_DetailFetchRetried ==
    s_pc \in {"details", "done"} =>
        \A i \in 1..LinksDone :
            LastPage(i) = "request_error" => Len(s_http[i]) = ScrapeRetryCfg.max_retries + 1

\* The calls of fetch_job_details made so far.
RECURSIVE DetailCalls(_)
DetailCalls(n) == IF n = 0 THEN 0 ELSE DetailCalls(n - 1) + Len(s_http[n])

\* The search page has been fetched and its links are being, or have been,
\* followed.
SearchFetched == s_pc \in {"details", "done"} /\ job_links # <<>>

\* C25 as stated: the rate limiter has one last-call timestamp for the search
\* fetch and the detail fetch, so the wrapper of the first detail fetch finds
\* the time of the search fetch there and waits until the minimum interval
\* after it before it calls fetch_job_details.
C25_SharedTimestamp ==
    SearchFetched =>
      /\ DetailCalls(Len(job_links)) = 0 =>
            s_last_called.detail = s_last_called.search
      /\ DetailCalls(Len(job_links)) = 1 =>
            s_last_called.detail - DelaySeconds
               >= s_last_called.search + min_interval(ScrapeRateCfg)

\* C25, amended: each of the two fetches has a last-call timestamp of its
\* own.  A search fetch leaves that of the detail fetch alone, so the rate
\* limiter adds no wait before the first detail fetch, which is paced by the
\* delay_seconds sleep of its body alone; from then on the limiter keeps
\* every detail fetch the minimum interval after the previous one.
C25_TimestampPerOperation ==
    SearchFetched =>
      LET k == DetailCalls(Len(job_links))
      IN  /\ k = 0 => s_last_called.detail = 0
          /\ k > 0 =>
                s_last_called.detail =
                   s_last_called.search + k * DelaySeconds
                      + (k - 1) * min_interval(ScrapeRateCfg)

\* Two detail pages have been fetched after the search page: the first
\* fetch_job_details call began the moment the search fetch returned, the
\* second the minimum interval after the first had returned.
C25_Witness ==
    /\ SearchFetched
    /\ DetailCalls(Len(job_links)) = 2
    /\ s_last_called.search >= StartTime
    /\ s_last_called.detail =
          s_last_called.search + 2 * DelaySeconds + min_interval(ScrapeRateCfg)

-----------------------------------------------------------------------------
(* Claims about TelegramNotifier, checked under SpecNotify *)

NotifyDone == n_pc = "done"

\* The channel delivered the message at the last send of the current call.
LastSendSucceeded == n_sent # <<>> /\ n_sent[Len(n_sent)] = "ok"

\* C11: whatever the channel does, a call of send_message,
\* send_job_notification, send_batch_summary or send_error_notification never
\* raises to its caller: it returns a boolean, which is True exactly when the
\* send succeeded and False when it did not.
C11_NotifyNeverRaises ==
    NotifyDone =>
        /\ n_result.kind = "return"
        /\ n_result.val \in BOOLEAN
        /\ n_result.val = LastSendSucceeded

\* A call on an enabled notifier whose channel raised has returned False.
C11_Witness ==
    /\ NotifyDone
    /\ n_op = "send_error_notification"
    /\ n_self.enabled
    /\ n_sent = <<"TelegramError">>
    /\ n_result = Returned(FALSE)

\* The notifier was constructed with the enabled flag off, or without a bot
\* token or a chat id.
ConstructedDisabled ==
    ~n_args.enabled \/ ~n_args.bot_token \/ ~n_args.chat_id

\* C12: on a notifier constructed disabled, every call of the four methods
\* returns False, raises nothing and sends nothing on the channel.
C12_DisabledNotifierIsNoOp ==
    ConstructedDisabled =>
        /\ n_sent = <<>>
        /\ NotifyDone => n_result = Returned(FALSE)

\* An enabled notifier constructed with a token but no chat id was asked to
\* send a job notification, and the call has ended.
C12_Witness ==
    /\ NotifyDone
    /\ n_args.enabled /\ n_args.bot_token /\ ~n_args.chat_id
    /\ n_args.bot = "ok"
    /\ n_op \in {"send_message", "send_job_notification"}
    /\ n_result = Returned(FALSE)

\* C26: when the channel fails a send, the send is attempted again with
\* backoff, max_retries + 1 = 4 times in all, before the call returns False.
C26_SendRetried ==
    (NotifyDone /\ n_sent # <<>> /\ ~LastSendSucceeded) =>
        /\ n_result = Returned(FALSE)
        /\ Len(n_sent) = NotifyRetryCfg.max_retries + 1
        /\ Len(SleepsOf(n_w.log)) = NotifyRetryCfg.max_retries

-----------------------------------------------------------------------------
(* Claims about SheetsManager, checked under SpecSheets and SpecBatch *)

Ensured(h)  == h.op = "ensure_headers" /\ h.outcome = "return"
Upserted(h) == h.op = "update_or_append_job" /\ h.outcome = "return"

HasHeaderRow(rows) == rows # <<>> /\ rows[1] = Headers

\* The rows below the first whose Link cell is link.
RowsWithLink(rows, link) == { r \in 2..Len(rows) : rows[r][4] = link }

\* C13: after a call of ensure_headers the first row is the seven-column
\* header: appended when the sheet was empty, inserted above the existing rows
\* when the first row differed; a second call right after the first makes no
\* write and leaves the sheet as it was.
C13_EnsureHeadersIdempotent ==
    \A i \in 1..Len(sh_hist) :
        LET h == sh_hist[i]
        IN  Ensured(h) =>
              /\ HasHeaderRow(h.after)
              /\ h.before = <<>> => h.after = <<Headers>>
              /\ (h.before # <<>> /\ h.before[1] # Headers)
                    => h.after = <<Headers>> \o h.before
              /\ (i > 1 /\ Ensured(sh_hist[i - 1]))
                    => /\ EnsureWrites(h.before) = <<>>
                       /\ h.after = h.before

\* ensure_headers was called twice in a row on a sheet whose first row was a
\* job's row.
C13_Witness ==
    /\ Len(sh_hist) = 2
    /\ Ensured(sh_hist[1]) /\ Ensured(sh_hist[2])
    /\ sh_hist[1].before # <<>>
    /\ sh_hist[1].before[1] # Headers

\* Calls i and i+1 were update_or_append_job(job) and
\* update_or_append_job(job') with the same apply_link, both returned, and the
\* first found a sheet with the header row.
RoundTripAt(i) ==
    /\ i + 1 <= Len(sh_hist)
    /\ Upserted(sh_hist[i]) /\ Upserted(sh_hist[i + 1])
    /\ sh_hist[i].job.apply_link = sh_hist[i + 1].job.apply_link
    /\ HasHeaderRow(sh_hist[i].before)

\* What the round trip leaves: one row with the link, holding job', and
\* every row with another link as it was.
RoundTripHolds(i) ==
    LET before == sh_hist[i].before
        after  == sh_hist[i + 1].after
        job2   == sh_hist[i + 1].job
        link   == job2.apply_link
    IN  /\ Cardinality(RowsWithLink(after, link)) = 1
        /\ \A r \in RowsWithLink(after, link) : after[r] = RowOf(job2)
        /\ \A r \in 1..Len(before) :
              before[r][4] # link => (r <= Len(after) /\ after[r] = before[r])

\* C14 as stated: on any sheet with the header row, upsert(job) then
\* upsert(job') with the same apply_link leaves exactly one data row with that
\* Link, holding the seven values of job', and every row with a different
\* Link unchanged.
C14_UpsertRoundTrip ==
    \A i \in 1..Len(sh_hist) : RoundTripAt(i) => RoundTripHolds(i)

\* C14 amended: the same, on a sheet with the header row in which at most one
\* data row already has that Link.
C14_UpsertRoundTripNoDuplicates ==
    \A i \in 1..Len(sh_hist) :
        ( /\ RoundTripAt(i)
          /\ Cardinality(RowsWithLink(sh_hist[i].before,
                                      sh_hist[i].job.apply_link)) <= 1 )
            => RoundTripHolds(i)

\* A job's row under the header was overwritten by two calls with that job's
\* apply_link and different values.
C14_Witness ==
    /\ Len(sh_hist) = 2
    /\ RoundTripAt(1)
    /\ Cardinality(RowsWithLink(sh_hist[1].before,
                                sh_hist[1].job.apply_link)) = 1
    /\ sh_hist[1].job.title # sh_hist[2].job.title
    /\ sh_hist[1].job.url # sh_hist[2].job.url

\* Calls i and j of update_or_append_job returned, and only calls of
\* update_or_append_job came between them.
UpsertPair(i, j) ==
    /\ i < j
    /\ Upserted(sh_hist[i]) /\ Upserted(sh_hist[j])
    /\ \A k \in i..j : sh_hist[k].op = "update_or_append_job"

\* C15 as stated: every record written has a non-empty url, and two records
\* are written to the same row exactly when their urls are equal.
C15_IdentityIsUrl ==
    \A i, j \in 1..Len(sh_hist) :
        UpsertPair(i, j) =>
            /\ sh_hist[i].job.url # "" /\ sh_hist[j].job.url # ""
            /\ (sh_hist[i].row = sh_hist[j].row)
                  <=> (sh_hist[i].job.url = sh_hist[j].job.url)

\* C15 amended: every record written has a non-empty apply_link, and two
\* records are written to the same row exactly when their apply_links are
\* equal.
C15_IdentityIsApplyLink ==
    \A i, j \in 1..Len(sh_hist) :
        UpsertPair(i, j) =>
            /\ sh_hist[i].job.apply_link # "" /\ sh_hist[j].job.apply_link # ""
            /\ (sh_hist[i].row = sh_hist[j].row)
                  <=> (sh_hist[i].job.apply_link = sh_hist[j].job.apply_link)

\* Two records with different urls and the same apply_link were written, to
\* the same row.
C15_Witness ==
    /\ Len(sh_hist) = 2
    /\ UpsertPair(1, 2)
    /\ sh_hist[1].job.url # sh_hist[2].job.url
    /\ sh_hist[1].job.apply_link = sh_hist[2].job.apply_link
    /\ sh_hist[1].row = sh_hist[2].row

\* C16: batch_append_jobs calls update_or_append_job for the jobs in input
\* order; when a call fails after its retries, batch_append_jobs does not
\* raise and goes on to call it for every later job.
C16_BatchUpsertContainment ==
    /\ sh_pc \in {"batch", "done"} =>
          /\ Len(sh_hist) <= Len(sh_jobs)
          /\ \A k \in 1..Len(sh_hist) :
                sh_hist[k].op = "update_or_append_job" /\ sh_hist[k].job = sh_jobs[k]
    /\ sh_pc = "batch" => Len(sh_hist) = sh_i - 1
    /\ sh_pc = "done" => Len(sh_hist) = Len(sh_jobs)
    /\ sh_pc # "raised"

\* A batch of two jobs has ended: the call for the first raised after four
\* attempts, the call for the second returned.
C16_Witness ==
    /\ sh_pc = "done"
    /\ Len(sh_jobs) = 2
    /\ Len(sh_hist) = 2
    /\ sh_hist[1].outcome = "raise"
    /\ sh_hist[2].outcome = "return"

\* The sheet batch_append_jobs was called on.
BatchStartSheet == IF sh_hist = <<>> THEN sh_before ELSE sh_hist[1].before

\* No two rows of jobs have the same Link cell.
NoSharedLink(rows) ==
    \A i, j \in { r \in 1..Len(rows) : rows[r] # Headers } :
        i # j => rows[i][4] # rows[j][4]

\* C28 as stated: from a sheet in which no two data rows share a Link, no
\* sequence of update_or_append_job calls, retried after failures part-way
\* through their writes, leads to a sheet in which two data rows share a Link.
C28_NoSharedLink ==
    NoSharedLink(BatchStartSheet) => NoSharedLink(sheet)

\* C28, amended: the same, from a sheet that is empty or has the header as
\* its first row.
C28_NoSharedLinkBelowHeader ==
    (NoSharedLink(BatchStartSheet)
        /\ (BatchStartSheet = <<>> \/ HasHeaderRow(BatchStartSheet)))
      => NoSharedLink(sheet)

\* A batch of two different jobs with the same apply_link has ended on a
\* sheet that was empty: the call for the first appended its row, the call
\* for the second failed, was retried and returned, and the sheet has the
\* header and the one row of the second job.
C28_Witness ==
    /\ sh_pc = "done"
    /\ Len(sh_jobs) = 2
    /\ sh_jobs[1] # sh_jobs[2]
    /\ sh_jobs[1].apply_link = sh_jobs[2].apply_link
    /\ BatchStartSheet = <<>>
    /\ sh_hist[1].outcome = "return"
    /\ sh_hist[2].before = <<Headers, RowOf(sh_jobs[1])>>
    /\ sh_hist[2].outcome = "return"
    /\ FailedCallsOf(sh_w.log) # <<>>
    /\ sheet = <<Headers, RowOf(sh_jobs[2])>>

-----------------------------------------------------------------------------
(* Claims about JobSearchAutomation.run, checked under SpecRun *)

\* The step of the run an event belongs to: 1 ExtractResume, 2 LoadFilters,
\* 3 FetchListings, 4 MatchAll, 5 ThresholdFilter, 6 PersistAndNotify; 0 for
\* the "no jobs" message and the error notification.
StepOf(e) ==
    CASE e.ev = "ExtractResume"   -> 1
      [] e.ev = "LoadFilters"     -> 2
      [] e.ev = "FetchListings"   -> 3
      [] e.ev = "MatchAll"        -> 4
      [] e.ev = "ThresholdFilter" -> 5
      [] e.ev \in {"ensure_headers", "update_or_append_job",
                   "send_job_notification", "send_batch_summary"} -> 6
      [] OTHER -> 0

\* The place of a call within PersistAndNotify.
PartOf(e) ==
    CASE e.ev = "ensure_headers"        -> 1
      [] e.ev = "update_or_append_job"  -> 2
      [] e.ev = "send_job_notification" -> 3
      [] e.ev = "send_batch_summary"    -> 4
      [] OTHER -> 0

RunSteps == SelectSeq(run_log, LAMBDA e : StepOf(e) > 0)

EventsOf(ev) == { i \in 1..Len(run_log) : run_log[i].ev = ev }

\* C17: the steps of a run occur only in the order ExtractResume, LoadFilters,
\* FetchListings, MatchAll, ThresholdFilter, PersistAndNotify, Done; no step
\* is entered twice and none before its predecessor has completed; within
\* PersistAndNotify the header check comes before every upsert, every upsert
\* before every job notification, and the summary is sent last.
C17_StepsInOrder ==
    LET steps == RunSteps
        n     == Len(steps)
        step  == [i \in 1..n |-> StepOf(steps[i])]
        part  == [i \in 1..n |-> PartOf(steps[i])]
    IN  /\ n > 0 => step[1] = 1
        /\ \A i \in 1..(n - 1) :
              \/ /\ step[i] < 6
                 /\ step[i + 1] = step[i] + 1
                 /\ steps[i].ok
              \/ /\ step[i] = 6
                 /\ step[i + 1] = 6
                 /\ part[i] <= part[i + 1]
                 /\ part[i] \in {1, 4} => part[i] < part[i + 1]
                 /\ part[i] = 1 => steps[i].ok
        /\ \A i \in 1..n : (step[i] = 6 /\ (i = 1 \/ step[i - 1] < 6)) => part[i] = 1
        /\ run_pc = "done" =>
              run_log[Len(run_log)].ev \in {"send_batch_summary", "send_message"}

\* A run has ended that matched two jobs, wrote both to the sheet, notified
\* one of them and sent the summary.
C17_Witness ==
    /\ run_pc = "done"
    /\ Len(run_matched) = 2
    /\ Len(run_high) = 1
    /\ Cardinality(EventsOf("update_or_append_job")) = 2
    /\ Cardinality(EventsOf("send_job_notification")) = 1
    /\ Cardinality(EventsOf("send_batch_summary")) = 1

\* search_jobs has returned an empty list.
ZeroListings ==
    /\ Len(run_log) >= 3
    /\ run_log[3].ev = "FetchListings"
    /\ run_log[3].ok
    /\ run_jobs = <<>>

\* C18: when search_jobs returns no jobs the run sends the "no jobs found"
\* message and ends normally; the matcher is not called, the sheet is neither
\* read nor written, and no job notification or summary is sent.
C18_ZeroListingsShortCircuit ==
    ZeroListings =>
        /\ run_pc \in {"nojobs", "done"}
        /\ run_pc = "done" =>
              /\ Len(run_log) = 4
              /\ run_log[4].ev = "send_message"
              /\ run_result = Returned(NoVal)
        /\ \A i \in 1..Len(run_log) :
              run_log[i].ev \notin
                  {"MatchAll", "ThresholdFilter", "ensure_headers",
                   "update_or_append_job", "send_job_notification",
                   "send_batch_summary", "send_error_notification"}
        /\ sheet = sh_before

\* A run that found no jobs has ended.
C18_Witness ==
    /\ ZeroListings
    /\ run_pc = "done"
    /\ run_log[Len(run_log)].ev = "send_message"

\* C19: when a step raises an exception that no lower layer contains, run
\* attempts exactly one error notification and then raises that same
\* exception, whether or not the notification could be sent.
C19_FailureNotifiedAndReraised ==
    /\ run_exc = NoExc => EventsOf("send_error_notification") = {}
    /\ run_pc = "failing" =>
          /\ run_exc # NoExc
          /\ EventsOf("send_error_notification") = {}
    /\ (run_exc # NoExc /\ run_pc # "failing") =>
          /\ run_pc = "raised"
          /\ run_result = Raised(run_exc)
          /\ EventsOf("send_error_notification") = {Len(run_log)}

\* ensure_headers raised, the error notification could not be sent on the
\* enabled notifier's channel, and run has raised.
C19_Witness ==
    /\ run_pc = "raised"
    /\ run_exc = "APIError"
    /\ n_self.enabled
    /\ run_log[Len(run_log)].ev = "send_error_notification"
    /\ ~run_log[Len(run_log)].ok

\* The jobs send_job_notification was called for.
Notified == { run_log[i].job : i \in EventsOf("send_job_notification") }

SummarySent == EventsOf("send_batch_summary") # {}

\* The third count of the summary is the number of job notifications.
SummaryCountsNotified ==
    \A i \in EventsOf("send_batch_summary") :
        /\ run_log[i].counts[3] = Cardinality(EventsOf("send_job_notification"))
        /\ run_log[i].counts[3] = Cardinality(Notified)

\* C20 as stated: a matched job is notified exactly when its score is above
\* the threshold (a score equal to the threshold is not), and the summary's
\* above-threshold count is the number of jobs notified.
C20_NotifiedIffAboveThreshold ==
    SummarySent =>
        /\ \A k \in 1..Len(run_matched) :
              (run_matched[k].id \in Notified)
                <=> (run_matched[k].score > DefaultMinScore)
        /\ SummaryCountsNotified

\* C20 amended: a matched job is notified exactly when its score is at or
\* above the threshold, and the summary's count is the number of jobs
\* notified.
C20_NotifiedIffAtLeastThreshold ==
    SummarySent =>
        /\ \A k \in 1..Len(run_matched) :
              (run_matched[k].id \in Notified)
                <=> (run_matched[k].score >= DefaultMinScore)
        /\ SummaryCountsNotified

\* The summary has been sent after a job whose score equals the threshold was
\* notified and one just below it was not.
C20_Witness ==
    /\ SummarySent
    /\ \E k \in 1..Len(run_matched) :
          /\ run_matched[k].score = DefaultMinScore
          /\ run_matched[k].id \in Notified
    /\ \E k \in 1..Len(run_matched) :
          /\ run_matched[k].score = DefaultMinScore - 1
          /\ run_matched[k].id \notin Notified

\* The jobs of the upsert calls the run has made, in the order of the calls.
UpsertedIds ==
    LET calls == SelectSeq(run_log, LAMBDA e : e.ev = "update_or_append_job")
    IN  [k \in 1..Len(calls) |-> calls[k].job]

MatchedIds == [k \in 1..Len(run_matched) |-> run_matched[k].id]

\* The found jobs whose match_job call raised inside batch_match_jobs.
RaisedIds ==
    { run_jobs[k].id : k \in 1..Len(run_jobs) } \ { MatchedIds[k] : k \in 1..Len(MatchedIds) }

\* The batch of upserts of step 6 is over.
UpsertsOver ==
    /\ \E i \in 1..Len(run_log) : run_log[i].ev = "ensure_headers" /\ run_log[i].ok
    /\ run_pc \in {"notify", "summary", "done", "failing", "raised"}

\* C21: persistence is not gated by the threshold.  In a run that reaches the
\* batch of upserts, every job batch_match_jobs returned, whatever its score,
\* is submitted to update_or_append_job, once and in the order of the matches,
\* and a job whose match_job call raised is never submitted.
C21_AllMatchesPersisted ==
    /\ \A k \in 1..Len(UpsertedIds) :
          /\ k <= Len(MatchedIds)
          /\ UpsertedIds[k] = MatchedIds[k]
          /\ UpsertedIds[k] \notin RaisedIds
    /\ UpsertsOver => UpsertedIds = MatchedIds

\* The batch is over in a run whose first job was given the sentinel's score 0
\* and was submitted, and whose second job raised in matching and was not.
C21_Witness ==
    /\ UpsertsOver
    /\ Len(run_jobs) = 2
    /\ Len(run_matched) = 1
    /\ run_matched[1].score = 0
    /\ run_high = <<>>
    /\ UpsertedIds = <<run_jobs[1].id>>
    /\ RaisedIds = {run_jobs[2].id}

\* The calls that close a run: the "No jobs found" message, the summary and
\* the error notification.
TerminalEvents ==
    EventsOf("send_message") \cup EventsOf("send_batch_summary")
        \cup EventsOf("send_error_notification")

RunEnded == run_pc \in {"done", "raised"}

\* C27: a run with an enabled notifier that has ended, by returning or by an
\* exception, has attempted exactly one of the "No jobs found" message, the
\* summary and the error notification; no run attempts both the summary and
\* the error notification; and a run that ended by an exception has sent no
\* job notification.
C27_OneTerminalNotification ==
    /\ (RunEnded /\ n_self.enabled) =>
          /\ Cardinality(TerminalEvents) = 1
          /\ TerminalEvents = {Len(run_log)}
    /\ Cardinality(TerminalEvents) <= 1
    /\ ~(SummarySent /\ EventsOf("send_error_notification") # {})
    /\ run_pc \in {"failing", "raised"} => EventsOf("send_job_notification") = {}

\* A run with an enabled notifier and a job above the threshold has failed at
\* the header check: the error notification is its one notification.
C27_Witness ==
    /\ run_pc = "raised"
    /\ n_self.enabled
    /\ run_high # <<>>
    /\ \E i \in EventsOf("ensure_headers") : ~run_log[i].ok
    /\ TerminalEvents = EventsOf("send_error_notification")
    /\ Cardinality(TerminalEvents) = 1

\* The jobs whose update_or_append_job call raised after its retries.
NotPersisted ==
    { run_log[i].job : i \in { e \in EventsOf("update_or_append_job") : ~run_log[e].ok } }

HighIds == { run_high[k].id : k \in 1..Len(run_high) }

\* C29: notification does not depend on persistence.  An upsert that failed
\* on every attempt does not end the run; once the loop of notifications is
\* over every job at or above the threshold has had its
\* send_job_notification call, and the summary counts every such job, whether
\* or not there is a row for it in the sheet.
C29_NotifiedWithoutPersistence ==
    /\ NotPersisted # {} => run_pc \notin {"failing", "raised"}
    /\ (run_pc \in {"summary", "done"} /\ ~ZeroListings) => Notified = HighIds
    /\ \A i \in EventsOf("send_batch_summary") :
          run_log[i].counts[3] = Cardinality(HighIds)

\* A run has ended on a sheet that has the header and no other row: the
\* upsert of its one matched job, which is at or above the threshold, failed,
\* and the job was notified and is counted in the summary.
C29_Witness ==
    /\ run_pc = "done"
    /\ Len(run_high) = 1
    /\ NotPersisted = HighIds
    /\ sheet = <<Headers>>
    /\ Notified = HighIds
    /\ \E i \in EventsOf("send_batch_summary") : run_log[i].counts[3] = 1

-----------------------------------------------------------------------------
(* Claims about build_search_url, checked under SpecUrl *)

\* The three facets: the parameter, the mapping table and the filter value.
Facets ==
    { [name |-> "f_E",  map |-> experience_map, value |-> u_filters.experience_level],
      [name |-> "f_WT", map |-> remote_map,     value |-> u_filters.remote],
      [name |-> "f_JT", map |-> job_type_map,   value |-> u_filters.job_type] }

\* The values of a facet that name an entry of its table (blanks around a
\* value aside), in input order.
Recognized(facet) ==
    SelectSeq(facet.value, LAMBDA piece : Strip(piece) \in DOMAIN facet.map)

\* The parameters of the URL with the facet's name.
ParamsOf(facet) == SelectSeq(u_url, LAMBDA param : param.name = facet.name)

\* Every comma-separated list of one to n codes of a table.
CodeLists(map, n) ==
    { Join(codes) : codes \in UNION { [1..k -> { map[v] : v \in DOMAIN map }] : k \in 1..n } }

\* C22: for the experience-level, remote and job-type facets the URL carries
\* only codes of the facet's table; the recognized values appear as their
\* codes in input order and the other values add nothing; a facet whose
\* values are all unrecognized has no parameter in the URL.
C22_FilterEncoding ==
    u_pc = "done" =>
      \A facet \in Facets :
         LET rec    == Recognized(facet)
             params == ParamsOf(facet)
         IN  /\ \A k \in 1..Len(params) :
                   params[k].value \in CodeLists(facet.map, Len(facet.value))
             /\ IF rec = <<>>
                THEN params = <<>>
                ELSE params = << Param(facet.name,
                                       Join([k \in 1..Len(rec) |->
                                                facet.map[Strip(rec[k])]])) >>

\* "Entry level,Mid-Senior level" has given f_E=2,4, and a remote filter
\* that names no remote type has given no f_WT.
C22_Witness ==
    /\ u_pc = "done"
    /\ u_filters.experience_level = <<"Entry level", "Mid-Senior level">>
    /\ u_filters.remote = <<"Internship">>
    /\ u_url = << Param("f_TPR", "r86400"), Param("f_E", "2,4") >>

-----------------------------------------------------------------------------
(* Claims about the identity of a job, checked under SpecIdent *)

\* C23: job_id is the id embedded in the detail page when the page has one,
\* otherwise the digits of a /jobs/view/<digits> URL, otherwise empty;
\* apply_link is the canonical link of job_id when job_id is not empty and
\* the original URL otherwise, so it is empty only for an empty URL.
C23_IdentityDerivation ==
    id_pc = "done" =>
      LET embedded == LastSegment(id_attr)
          digits   == UrlViewId(id_url)
      IN  /\ id_job.url = id_url
          /\ embedded # "" => id_job.job_id = embedded
          /\ (embedded = "" /\ digits # "") => id_job.job_id = digits
          /\ (embedded = "" /\ digits = "") => id_job.job_id = ""
          /\ id_job.job_id # "" =>
                id_job.apply_link =
                   "https://www.linkedin.com/jobs/view/" \o id_job.job_id
          /\ id_job.job_id = "" => id_job.apply_link = id_url
          /\ id_url # "" => id_job.apply_link # ""

\* A page that embeds id 2 under the URL of posting 1 has been parsed: the
\* job has id 2 and the canonical link of 2.
C23_Witness ==
    /\ id_pc = "done"
    /\ id_url = "https://uk.linkedin.com/jobs/view/1"
    /\ id_attr = "urn:li:jobPosting:2"
    /\ id_job.job_id = "2"
    /\ id_job.apply_link = "https://www.linkedin.com/jobs/view/2"

-----------------------------------------------------------------------------
(* Claims about ResumeParser.extract_text, checked under SpecParse *)

\* C24: extract_text tries pdfplumber first and PyPDF2 only after pdfplumber
\* raised or returned a text below the usable length, and it fails whenever no
\* strategy gave a usable text: it never returns a text that is empty or
\* below the usable length.
C24_NeverReturnsUnusableText ==
    p_method = "auto" =>
      /\ \A k \in 1..Len(p_log) :
            p_log[k].strategy = "pypdf2" =>
               /\ k = 2
               /\ p_log[1].strategy = "pdfplumber"
               /\ \/ p_log[1].outcome.kind = "raise"
                  \/ ~PassesSanityCheck(p_log[1].outcome.val)
      /\ p_pc = "done" => PassesSanityCheck(p_result.val)


-----------------------------------------------------------------------------
(* Claims about scheduled mode, checked under SpecSched *)

\* The k-th scheduled run ended in Failed: run raised its exception.
FailedRun(k) == sc_runs[k].kind = "raise" /\ sc_runs[k].exc \in RunExceptions

\* C30: in scheduled mode a run that ends in Failed ends the scheduler: the
\* exception leaves the waiting loop, the process exits with a status other
\* than 0 and no later run starts; after a run that returns the loop goes on
\* waiting, with the job due again within a day.
C30_FailedRunEndsScheduler ==
    \A k \in 1..Len(sc_runs) :
        /\ FailedRun(k) =>
              /\ k = Len(sc_runs)
              /\ sc_pc = "exited"
              /\ sc_status > 0
        /\ sc_runs[k].kind = "return" =>
              \/ k < Len(sc_runs)
              \/ /\ sc_pc = "waiting"
                 /\ sc_status = NotExited
                 /\ sc_next_run >= sc_pass
                 /\ sc_next_run - sc_pass < DayPasses
              \/ /\ sc_pc = "exited"
                 /\ sc_status = 0

\* Two daily runs returned and the third failed: the process has exited with
\* status 1.
C30_Witness ==
    /\ Len(sc_runs) = 3
    /\ sc_runs[1].kind = "return"
    /\ sc_runs[2].kind = "return"
    /\ FailedRun(3)
    /\ sc_pc = "exited"
    /\ sc_status = 1

====
